---- MODULE Spec2Model ----
(***************************************************************************)
(* State-machine model of the EV modelling map viewer (js/app.js,          *)
(* js/layers.js and its configuration object).                             *)
(*                                                                         *)
(* Variable job is the R process of the conversion scripts                 *)
(* (scripts/convert_gpkg_to_pmtiles.R, scripts/reduce_pmtiles_size.R and   *)
(* the missing-files script); the viewer never touches it.                 *)
(*                                                                         *)
(* JavaScript strings that the code builds, splits and joins (layer ids,   *)
(* source ids, archive keys) are modelled as sequences of tokens: a token  *)
(* is a word, or one of the separators "_" and "-".  Template literals are *)
(* concatenations, split('-') and join('_') work on the "-" tokens.        *)
(***************************************************************************)
EXTENDS Integers, Sequences, FiniteSets, TLC

VARIABLES currentRegion, currentStage, currentBasemap, activeLayers,
          showChargers, showAnalysisLayer, showCarAvailability,
          showEvDistribution,
          sources, layers, styleLoaded, styleLoadListeners, camera,
          legend, addWhileLoading, lastFired, infoPanel, handlers, job

vars == <<currentRegion, currentStage, currentBasemap, activeLayers,
          showChargers, showAnalysisLayer, showCarAvailability,
          showEvDistribution,
          sources, layers, styleLoaded, styleLoadListeners, camera,
          legend, addWhileLoading, lastFired, infoPanel, handlers, job>>

(***************************************************************************)
(* Bounds of the model.                                                    *)
(***************************************************************************)
\* how many of the configured regions the region selector offers (plus 'all')
NumRegionChoices == 1
\* how many of the configured stages the stage radio buttons offer
NumStageChoices == 3
\* how many of the configured basemaps the basemap selector offers
NumBasemapChoices == 1
\* how many style.load listeners may be waiting at once
MaxPendingLoads == 2
\* the most columns and rows of a container, the largest file size (in
\* tenths of a GB), the generator states a script may start in
MaxCols == 452
MaxRows == 24
MaxFileSize == 121
MaxRngEntry == 1
\* how many regions convert_all goes through
NumBatchRegions == 2
\* how many items of a batch may be missing, or fail
MaxTroubles == 1
\* listeners per event type and layer id
MaxHandlers == 2
\* stages to choose from where the listeners are recorded
NumHandlerStages == 2

(***************************************************************************)
(* Strings.                                                                *)
(***************************************************************************)
W(w) == <<w>>
US == <<"_">>
DASH == <<"-">>

RECURSIVE SplitFrom(_, _, _)
\* str.split(sep): the pieces between the separator tokens (cur is the piece
\* being read)
SplitFrom(str, sep, cur) ==
    IF str = <<>> THEN <<cur>>
    ELSE IF Head(str) = sep THEN <<cur>> \o SplitFrom(Tail(str), sep, <<>>)
    ELSE SplitFrom(Tail(str), sep, Append(cur, Head(str)))

Split(str, sep) == SplitFrom(str, sep, <<>>)

RECURSIVE Join(_, _)
\* parts.join(sep)
Join(parts, sep) ==
    IF parts = <<>> THEN <<>>
    ELSE IF Len(parts) = 1 THEN parts[1]
    ELSE parts[1] \o <<sep>> \o Join(Tail(parts), sep)

(***************************************************************************)
(* CONFIG                                                                  *)
(***************************************************************************)
\* coordinates are in hundredths of a degree
MapConfig == [center |-> <<-400, 5650>>, zoom |-> 6]

Regions ==
    << [id |-> W("hitrans"),   center |-> <<-550, 5750>>, zoom |-> 7],
       [id |-> W("nestrans"),  center |-> <<-210, 5715>>, zoom |-> 9],
       [id |-> W("sestran"),   center |-> <<-320, 5595>>, zoom |-> 9],
       [id |-> W("spt"),       center |-> <<-425, 5585>>, zoom |-> 9],
       [id |-> W("swestrans"), center |-> <<-400, 5510>>, zoom |-> 9],
       [id |-> W("tactran"),   center |-> <<-380, 5650>>, zoom |-> 8],
       [id |-> W("zettrans"),  center |-> <<-120, 6040>>, zoom |-> 9] >>

RegionIds == [i \in DOMAIN Regions |-> Regions[i].id]

Stages ==
    << [id |-> <<"adoption", "_", "propensity">>, type |-> "polygon",
        colorScale |-> "viridis", legendTitle |-> "Final Adoption Propensity"],
       [id |-> <<"charging", "_", "network">>, type |-> "polygon",
        colorScale |-> "charging_category",
        legendTitle |-> "Charging Accessibility"],
       [id |-> <<"trip", "_", "purpose">>, type |-> "line",
        colorScale |-> "categorical", legendTitle |-> "Trip Purpose"],
       [id |-> <<"range", "_", "feasibility">>, type |-> "line",
        colorScale |-> "feasibility", legendTitle |-> "Feasibility"],
       [id |-> <<"conversion", "_", "potential">>, type |-> "polygon",
        colorScale |-> "viridis", legendTitle |-> "Purpose Weight"],
       [id |-> <<"ev", "_", "assignment", "_", "replaceable", "_", "only">>,
        type |-> "polygon", colorScale |-> "ev_type",
        legendTitle |-> "EV Type Assignment"],
       [id |-> <<"integrated", "_", "conversion", "_", "with", "_", "ev",
                 "_", "types">>,
        type |-> "polygon", colorScale |-> "viridis",
        legendTitle |-> "Integrated Score"] >>

StageIds == [i \in DOMAIN Stages |-> Stages[i].id]

OverlayLayers ==
    << [id |-> <<"car", "_", "availability">>, type |-> "polygon",
        colorScale |-> "viridis", legendTitle |-> "Car Ownership Rate",
        sourceLayer |-> <<"car", "_", "availability">>],
       [id |-> <<"ev", "_", "distribution">>, type |-> "polygon",
        colorScale |-> "plasma", legendTitle |-> "BEV Share (%)",
        sourceLayer |-> <<"ev", "_", "distribution">>] >>

CAR_AVAILABILITY == <<"car", "_", "availability">>
EV_DISTRIBUTION == <<"ev", "_", "distribution">>

\* every region of the list has an entry for every stage of the list, and the
\* three region-independent archives are listed as well
AvailableFiles ==
    { W("chargers"), CAR_AVAILABILITY, EV_DISTRIBUTION }
    \cup { RegionIds[i] \o US \o StageIds[j] :
             i \in DOMAIN Regions, j \in DOMAIN Stages }

\* a continuous scale is an array of [value, colour] stops, a categorical scale
\* an object from category to colour (its entries in declaration order)
ColorScales ==
    [ viridis |-> [array |-> TRUE,
                   entries |-> << <<"0.0", "#440154">>, <<"0.25", "#3b528b">>,
                                  <<"0.5", "#21918c">>, <<"0.75", "#5ec962">>,
                                  <<"1.0", "#fde725">> >>],
      plasma |-> [array |-> TRUE,
                  entries |-> << <<"0.0", "#0d0887">>, <<"0.25", "#7e03a8">>,
                                 <<"0.5", "#cc4778">>, <<"0.75", "#f89540">>,
                                 <<"1.0", "#f0f921">> >>],
      feasibility |-> [array |-> FALSE,
                       entries |-> << <<"feasible", "#2ecc71">>,
                                      <<"constrained", "#f39c12">>,
                                      <<"infeasible", "#e74c3c">> >>],
      charging_category |-> [array |-> FALSE,
                             entries |-> << <<"excellent", "#2ecc71">>,
                                            <<"good", "#27ae60">>,
                                            <<"fair", "#f39c12">>,
                                            <<"poor", "#e74c3c">> >>],
      ev_type |-> [array |-> FALSE,
                   entries |-> << <<"2-seater", "#3498db">>,
                                  <<"4-seater", "#9b59b6">>,
                                  <<"mixed", "#1abc9c">> >>],
      categorical |-> [array |-> FALSE,
                       entries |-> << <<"Commuting", "#e74c3c">>,
                                      <<"Business", "#c0392b">>,
                                      <<"Education", "#3498db">>,
                                      <<"shopping", "#2ecc71">>,
                                      <<"Other personal business", "#9b59b6">>,
                                      <<"Escort", "#f39c12">>,
                                      <<"Visiting friends or relatives",
                                        "#1abc9c">>,
                                      <<"Holiday/daytrip", "#e91e63">>,
                                      <<"Sport/Entertainment", "#00bcd4">>,
                                      <<"Eating/Drinking", "#ff9800">>,
                                      <<"Visit Hospital or other health",
                                        "#607d8b">>,
                                      <<"Other Journey", "#95a5a6">> >>] ]

Basemaps == << "dark", "light", "osm", "satellite", "satellite-streets" >>

\* CONFIG.stages.find(s => s.id === stage): HasStage is "the result is defined"
HasStage(stage) == \E i \in DOMAIN Stages : Stages[i].id = stage
StageConfig(stage) ==
    Stages[CHOOSE i \in DOMAIN Stages :
             Stages[i].id = stage /\ \A j \in 1..(i - 1) : Stages[j].id # stage]

HasOverlay(overlayId) ==
    \E i \in DOMAIN OverlayLayers : OverlayLayers[i].id = overlayId
OverlayConfig(overlayId) ==
    OverlayLayers[CHOOSE i \in DOMAIN OverlayLayers :
                    OverlayLayers[i].id = overlayId]

HasRegion(region) == \E i \in DOMAIN Regions : Regions[i].id = region
RegionConfig(region) ==
    Regions[CHOOSE i \in DOMAIN Regions : Regions[i].id = region]

(***************************************************************************)
(* The program state as one record, so that a handler is a function from   *)
(* state to state.  Field thrown is the exception in flight, errorEvent    *)
(* says whether the map has fired an 'error' event during the handler.     *)
(***************************************************************************)
\* lastFired is the number of style.load listeners the event just handled ran
\* (0 when it was not a style.load event)
Cur ==
    [ currentRegion |-> currentRegion, currentStage |-> currentStage,
      currentBasemap |-> currentBasemap, activeLayers |-> activeLayers,
      showChargers |-> showChargers, showAnalysisLayer |-> showAnalysisLayer,
      showCarAvailability |-> showCarAvailability,
      showEvDistribution |-> showEvDistribution,
      sources |-> sources, layers |-> layers, styleLoaded |-> styleLoaded,
      styleLoadListeners |-> styleLoadListeners, camera |-> camera,
      legend |-> legend, thrown |-> FALSE, errorEvent |-> FALSE,
      addWhileLoading |-> addWhileLoading, lastFired |-> 0,
      infoPanel |-> infoPanel, handlers |-> handlers ]

Throw(s) == [s EXCEPT !.thrown = TRUE]

FireError(s) == [s EXCEPT !.errorEvent = TRUE]

\* the state a handler leaves behind once it has ended
Ended(s) == [s EXCEPT !.thrown = FALSE, !.errorEvent = FALSE, !.lastFired = 0]

(***************************************************************************)
(* The map object of the rendering library.  Its sources are a dictionary  *)
(* keyed by id, its layers an ordered list.  Adding a source whose id is   *)
(* taken, or removing a source that is not there, raises; adding a layer   *)
(* whose id is taken or whose source is missing, removing a layer that is  *)
(* not there, or removing a source a layer still uses, fires an 'error'    *)
(* event and changes nothing.  Setting a style drops every source and      *)
(* layer added before; until the new style has loaded nothing can be       *)
(* added: the attempt either raises or is dropped silently                 *)
(* (addWhileLoading says which).                                           *)
(***************************************************************************)
MapGetSource(s, id) == \E src \in s.sources : src.id = id

MapGetLayer(s, id) == \E i \in DOMAIN s.layers : s.layers[i].id = id

\* whether an addSource or addLayer call made now is refused
RefusesAdd(s) == ~s.styleLoaded

MapAddSourceAnytime(s, id, url) ==
    IF MapGetSource(s, id) THEN Throw(s)
    ELSE [s EXCEPT !.sources = @ \cup {[id |-> id, url |-> url]}]

MapAddSource(s, id, url) ==
    IF RefusesAdd(s)
    THEN IF s.addWhileLoading = "throws" THEN Throw(s) ELSE s
    ELSE IF MapGetSource(s, id) THEN Throw(s)
    ELSE [s EXCEPT !.sources = @ \cup {[id |-> id, url |-> url]}]

MapAddLayer(s, layer) ==
    IF RefusesAdd(s)
    THEN IF s.addWhileLoading = "throws" THEN Throw(s) ELSE s
    ELSE IF MapGetLayer(s, layer.id) \/ ~MapGetSource(s, layer.source)
    THEN FireError(s)
    ELSE [s EXCEPT !.layers = Append(@, layer)]

MapRemoveLayer(s, id) ==
    IF ~MapGetLayer(s, id) THEN FireError(s)
    ELSE [s EXCEPT !.layers = SelectSeq(@, LAMBDA l : l.id # id)]

MapRemoveSource(s, id) ==
    IF ~MapGetSource(s, id) THEN Throw(s)
    ELSE IF \E i \in DOMAIN s.layers : s.layers[i].source = id
    THEN FireError(s)
    ELSE [s EXCEPT !.sources = {src \in @ : src.id # id}]

MapSetStyle(s) ==
    [s EXCEPT !.sources = {}, !.layers = <<>>, !.styleLoaded = FALSE]

\* map.on(type, layerId, listener) with a fresh closure: one more delegated
\* listener for the layer id, whether or not a layer of that id is on the
\* map; nothing but map.off takes a listener away.  handlers.count is the
\* number of listeners per event type and layer id; it is kept only where
\* handlers.recorded says so, the listeners of the model having no effect on
\* anything else.
MapOn(s, type, layerId) ==
    IF ~s.handlers.recorded THEN s
    ELSE LET k == [type |-> type, layer |-> layerId]
             c == s.handlers.count
         IN  [s EXCEPT !.handlers.count =
                         [x \in DOMAIN c \cup {k} |->
                            IF x = k
                            THEN (IF k \in DOMAIN c THEN c[k] ELSE 0) + 1
                            ELSE c[x]]]

(***************************************************************************)
(* LAYERS (js/layers.js)                                                   *)
(***************************************************************************)
\* the file stem of the archive URL pmtiles://<base>/<stem>.pmtiles
getSourceUrl(region, stage) == region \o US \o stage

getOverlaySourceUrl(layerId) == layerId

getSourceLayer(region, stage) == region \o US \o stage

OUTLINE == <<"-", "outline">>
SOURCE == <<"-", "source">>

\* whether building the fill-colour expression raises: Object.entries of an
\* undefined colour scale
FillStyleThrows(scaleName) == scaleName \notin DOMAIN ColorScales

createPolygonFillStyle(sourceId, layerId, region, stage) ==
    [id |-> layerId, type |-> "fill", source |-> sourceId,
     sourceLayer |-> getSourceLayer(region, stage)]

createPolygonOutlineStyle(sourceId, layerId, region, stage) ==
    [id |-> layerId \o OUTLINE, type |-> "line", source |-> sourceId,
     sourceLayer |-> getSourceLayer(region, stage)]

createLineStyle(sourceId, layerId, region, stage) ==
    [id |-> layerId, type |-> "line", source |-> sourceId,
     sourceLayer |-> getSourceLayer(region, stage)]

createOverlayFillStyle(sourceId, layerId, overlayConfig) ==
    [id |-> layerId, type |-> "fill", source |-> sourceId,
     sourceLayer |-> overlayConfig.sourceLayer]

createOverlayOutlineStyle(sourceId, layerId, overlayConfig) ==
    [id |-> layerId \o OUTLINE, type |-> "line", source |-> sourceId,
     sourceLayer |-> overlayConfig.sourceLayer]

\* if (map.getLayer(id)) map.removeLayer(id)
RemoveLayerIfPresent(s, id) ==
    IF s.thrown THEN s
    ELSE IF MapGetLayer(s, id) THEN MapRemoveLayer(s, id)
    ELSE s

\* if (map.getSource(id)) map.removeSource(id)
RemoveSourceIfPresent(s, id) ==
    IF s.thrown THEN s
    ELSE IF MapGetSource(s, id) THEN MapRemoveSource(s, id)
    ELSE s

\* the getSource guard left out
AddSourceUnguarded(s, id, url) ==
    IF s.thrown THEN s ELSE MapAddSource(s, id, url)

\* if (!map.getSource(id)) map.addSource(id, ...)
AddSourceIfAbsent(s, id, url) ==
    IF s.thrown THEN s
    ELSE IF ~MapGetSource(s, id) THEN MapAddSource(s, id, url)
    ELSE s

\* a map.addLayer call that follows a statement that may have raised
ThenMapAddLayer(s, layer) == IF s.thrown THEN s ELSE MapAddLayer(s, layer)

\* the outline of a polygon stage left out
addLayerStylesFillOnly(s, sourceId, layerId, region, stage) ==
    IF s.thrown THEN s
    ELSE IF ~HasStage(stage) THEN Throw(s)
    ELSE IF ~MapGetLayer(s, layerId)
    THEN IF StageConfig(stage).type = "polygon"
         THEN MapAddLayer(s, createPolygonFillStyle(sourceId, layerId, region, stage))
         ELSE MapAddLayer(s, createLineStyle(sourceId, layerId, region, stage))
    ELSE s

\* the second half of LAYERS.addLayer: "Add layer based on type"
addLayerStyles(s, sourceId, layerId, region, stage) ==
    IF s.thrown THEN s
    ELSE IF ~HasStage(stage) THEN Throw(s)
    ELSE IF StageConfig(stage).type = "polygon"
    THEN IF ~MapGetLayer(s, layerId)
         THEN IF FillStyleThrows(StageConfig(stage).colorScale)
              THEN Throw(s)
              ELSE ThenMapAddLayer(
                     MapAddLayer(s, createPolygonFillStyle(sourceId, layerId,
                                                           region, stage)),
                     createPolygonOutlineStyle(sourceId, layerId, region, stage))
         ELSE s
    ELSE IF StageConfig(stage).type = "line"
    THEN IF ~MapGetLayer(s, layerId)
         THEN MapAddLayer(s, createLineStyle(sourceId, layerId, region, stage))
         ELSE s
    ELSE s

\* LAYERS.addLayer(map, region, stage); the id it returns is
\* region \o DASH \o stage, and thrown says whether it raised instead
addLayer(s, region, stage) ==
    addLayerStyles(AddSourceIfAbsent(s, region \o DASH \o stage \o SOURCE,
                                     getSourceUrl(region, stage)),
                   region \o DASH \o stage \o SOURCE,
                   region \o DASH \o stage, region, stage)

\* the outline layer left on the map
removeLayerSkipsOutline(s, region, stage) ==
    RemoveSourceIfPresent(
        RemoveLayerIfPresent(s, region \o DASH \o stage),
        region \o DASH \o stage \o SOURCE)

\* LAYERS.removeLayer(map, region, stage)
removeLayer(s, region, stage) ==
    RemoveSourceIfPresent(
        RemoveLayerIfPresent(
            RemoveLayerIfPresent(s, region \o DASH \o stage),
            region \o DASH \o stage \o OUTLINE),
        region \o DASH \o stage \o SOURCE)

\* the second half of LAYERS.addOverlayLayer
addOverlayStyles(s, sourceId, layerId, overlayConfig) ==
    IF s.thrown THEN s
    ELSE IF overlayConfig.type = "polygon" /\ ~MapGetLayer(s, layerId)
    THEN IF FillStyleThrows(overlayConfig.colorScale) THEN Throw(s)
         ELSE ThenMapAddLayer(
                MapAddLayer(s, createOverlayFillStyle(sourceId, layerId,
                                                      overlayConfig)),
                createOverlayOutlineStyle(sourceId, layerId, overlayConfig))
    ELSE s

\* LAYERS.addOverlayLayer(map, overlayId)
addOverlayLayer(s, overlayId) ==
    IF ~HasOverlay(overlayId) THEN s
    ELSE addOverlayStyles(
           AddSourceIfAbsent(s, overlayId \o SOURCE,
                             getOverlaySourceUrl(overlayId)),
           overlayId \o SOURCE, overlayId, OverlayConfig(overlayId))

\* the source left on the map
removeOverlayLayerKeepsSource(s, overlayId) ==
    RemoveLayerIfPresent(RemoveLayerIfPresent(s, overlayId),
                         overlayId \o OUTLINE)

\* LAYERS.removeOverlayLayer(map, overlayId)
removeOverlayLayer(s, overlayId) ==
    RemoveSourceIfPresent(
        RemoveLayerIfPresent(
            RemoveLayerIfPresent(s, overlayId),
            overlayId \o OUTLINE),
        overlayId \o SOURCE)

\* a row for the fallback colour added after the declared categories
LegendItemsWithFallback(entries) ==
    [i \in 1..(Len(entries) + 1) |->
        IF i <= Len(entries)
        THEN <<"item", entries[i][2], "display", entries[i][1]>>
        ELSE <<"item", "#95a5a6", "display", "other">>]

\* the HTML is a sequence of rows; a row is a sequence of strings.
\* label.replace(/_/g, ' ').replace(/\b\w/g, upper-case) is kept as a marker
\* on the label: no two declared labels of a scale have the same display form
LegendItems(entries) ==
    [i \in DOMAIN entries |-> <<"item", entries[i][2], "display", entries[i][1]>>]

GradientColors(entries) == [i \in DOMAIN entries |-> entries[i][2]]

\* LAYERS.generateLegend(stage): on this model a missing stage raises, which
\* the caller sees through LegendThrows
LegendThrows(stage) ==
    \/ ~HasStage(stage)
    \/ StageConfig(stage).colorScale \notin DOMAIN ColorScales

generateLegend(stage) ==
    LET stageConfig == StageConfig(stage)
        colorScale == ColorScales[stageConfig.colorScale]
    IN  << <<"title", stageConfig.legendTitle>> >>
        \o IF colorScale.array
           THEN << <<"gradient">> \o GradientColors(colorScale.entries),
                   <<"labels", "0", "0.5", "1">> >>
           ELSE LegendItems(colorScale.entries)

OverlayLegendThrows(overlayId) ==
    /\ HasOverlay(overlayId)
    /\ OverlayConfig(overlayId).colorScale \notin DOMAIN ColorScales

\* LAYERS.generateOverlayLegend(overlayId)
generateOverlayLegend(overlayId) ==
    IF ~HasOverlay(overlayId) THEN <<>>
    ELSE
    LET overlayConfig == OverlayConfig(overlayId)
        colorScale == ColorScales[overlayConfig.colorScale]
    IN  << <<"title", overlayConfig.legendTitle>> >>
        \o IF colorScale.array
           THEN << <<"gradient">> \o GradientColors(colorScale.entries),
                   IF overlayId = EV_DISTRIBUTION
                   THEN <<"labels", "0", "3000", "7000+">>
                   ELSE IF overlayId = CAR_AVAILABILITY
                   THEN <<"labels", "0%", "50%", "100%">>
                   ELSE <<"labels", "0", "0.5", "1">> >>
           ELSE LegendItems(colorScale.entries)

(***************************************************************************)
(* EVModellingApp (js/app.js)                                              *)
(***************************************************************************)
ALL == <<"all">>
CHARGERS_SOURCE == <<"chargers", "-", "source">>
CHARGERS_LAYER == <<"chargers", "-", "layer">>

\* the charger layer added after its source, and the three map.on calls
\* that follow its addLayer
AddChargerLayer(s) ==
    LET ChargerListeners(a) ==
            IF a.thrown THEN a
            ELSE MapOn(MapOn(MapOn(a, "click", CHARGERS_LAYER),
                             "mouseenter", CHARGERS_LAYER),
                       "mouseleave", CHARGERS_LAYER)
    IN  IF s.thrown THEN s
        ELSE IF ~MapGetLayer(s, CHARGERS_LAYER)
        THEN ChargerListeners(
               MapAddLayer(s, [id |-> CHARGERS_LAYER, type |-> "circle",
                               source |-> CHARGERS_SOURCE,
                               sourceLayer |-> W("chargers")]))
        ELSE s

\* updateChargerLayer()
updateChargerLayer(s) ==
    IF s.showChargers
    THEN AddChargerLayer(AddSourceIfAbsent(s, CHARGERS_SOURCE, W("chargers")))
    ELSE RemoveSourceIfPresent(RemoveLayerIfPresent(s, CHARGERS_LAYER),
                               CHARGERS_SOURCE)

\* one of the two if/else statements of updateOverlayLayers
UpdateOverlay(s, overlayId, show) ==
    IF s.thrown THEN s
    ELSE IF show THEN addOverlayLayer(s, overlayId)
    ELSE removeOverlayLayer(s, overlayId)

\* both overlays driven by the car-availability flag
updateOverlayLayersOneFlag(s) ==
    UpdateOverlay(UpdateOverlay(s, CAR_AVAILABILITY, s.showCarAvailability),
                  EV_DISTRIBUTION, s.showCarAvailability)

\* updateOverlayLayers()
updateOverlayLayers(s) ==
    UpdateOverlay(UpdateOverlay(s, CAR_AVAILABILITY, s.showCarAvailability),
                  EV_DISTRIBUTION, s.showEvDistribution)

\* the availableFiles test left out: every key passes
IsAvailableAlways(fileKey) == TRUE

\* CONFIG.availableFiles.includes(fileKey)
IsAvailable(fileKey) == fileKey \in AvailableFiles

\* the layer id split on '_' instead of '-'
ParsedStageSplitOnUnderscore(layerId) == Join(Tail(Split(layerId, "_")), "_")

\* the region and the stage updateLayers reads back from a layer id
ParsedRegion(layerId) == Split(layerId, "-")[1]
ParsedStage(layerId) == Join(Tail(Split(layerId, "-")), "_")

RECURSIVE RemoveActive(_, _)
\* this.activeLayers.forEach(layerId => ... LAYERS.removeLayer(...))
RemoveActive(s, ids) ==
    IF ids = <<>> THEN s
    ELSE RemoveActive(removeLayer(s, ParsedRegion(Head(ids)),
                                  ParsedStage(Head(ids))),
                      Tail(ids))

RegionsToShow(s) ==
    IF s.currentRegion = ALL THEN RegionIds ELSE <<s.currentRegion>>

\* the try/catch around LAYERS.addLayer: push the id, or log the failure
PushOrCatch(a, layerId) ==
    IF a.thrown THEN [a EXCEPT !.thrown = FALSE]
    ELSE [a EXCEPT !.activeLayers = Append(@, layerId)]

\* one round of the region loop
AddRegion(s, region) ==
    IF IsAvailable(region \o US \o s.currentStage)
    THEN PushOrCatch(addLayer(s, region, s.currentStage),
                     region \o DASH \o s.currentStage)
    ELSE s

RECURSIVE AddRegions(_, _)
AddRegions(s, regions) ==
    IF regions = <<>> THEN s
    ELSE AddRegions(AddRegion(s, Head(regions)), Tail(regions))

\* the second half of updateLayers: "Only add layers if analysis layer is
\* enabled"
AddIfEnabled(s) ==
    IF s.thrown \/ ~s.showAnalysisLayer THEN s
    ELSE AddRegions(s, RegionsToShow(s))

\* updateClickHandlers(), the last statement of updateLayers, behind the
\* early return for the analysis layer switched off: two map.on calls for
\* every id in activeLayers
updateClickHandlers(s) ==
    LET RECURSIVE HoverListeners(_, _)
        HoverListeners(a, ids) ==
            IF ids = <<>> THEN a
            ELSE HoverListeners(MapOn(MapOn(a, "mouseenter", Head(ids)),
                                      "mouseleave", Head(ids)),
                                Tail(ids))
    IN  IF s.thrown \/ ~s.showAnalysisLayer THEN s
        ELSE HoverListeners(s, s.activeLayers)

\* the removal loop left out
updateLayersKeepsOld(s) ==
    updateClickHandlers(AddIfEnabled([s EXCEPT !.activeLayers = <<>>]))

\* updateLayers()
updateLayers(s) ==
    updateClickHandlers(
        AddIfEnabled([RemoveActive(s, s.activeLayers) EXCEPT !.activeLayers = <<>>]))

HR == << <<"hr">> >>
LEGEND_EMPTY == << <<"empty", "No layers active">> >>

\* html += part, after a divider when html is not empty
AppendLegend(html, show, part) ==
    IF show THEN (IF html # <<>> THEN html \o HR ELSE html) \o part ELSE html

LegendOrEmpty(html) == IF html # <<>> THEN html ELSE LEGEND_EMPTY

\* updateLegend()
updateLegend(s) ==
    IF s.showAnalysisLayer /\ LegendThrows(s.currentStage) THEN Throw(s)
    ELSE IF s.showCarAvailability /\ OverlayLegendThrows(CAR_AVAILABILITY)
    THEN Throw(s)
    ELSE IF s.showEvDistribution /\ OverlayLegendThrows(EV_DISTRIBUTION)
    THEN Throw(s)
    ELSE [s EXCEPT !.legend =
            LegendOrEmpty(
              AppendLegend(
                AppendLegend(
                  IF s.showAnalysisLayer THEN generateLegend(s.currentStage)
                  ELSE <<>>,
                  s.showCarAvailability,
                  generateOverlayLegend(CAR_AVAILABILITY)),
                s.showEvDistribution,
                generateOverlayLegend(EV_DISTRIBUTION)))]

\* flyToRegion(): the camera is where the map is heading
flyToRegion(s) ==
    IF s.currentRegion = ALL
    THEN [s EXCEPT !.camera = [center |-> MapConfig.center,
                               zoom |-> MapConfig.zoom]]
    ELSE IF HasRegion(s.currentRegion)
    THEN [s EXCEPT !.camera =
                     [center |-> RegionConfig(s.currentRegion).center,
                      zoom |-> RegionConfig(s.currentRegion).zoom]]
    ELSE s

\* changeBasemap(): the once('style.load') listener keeps the center and zoom
\* read before setStyle
changeBasemap(s) ==
    IF \A i \in DOMAIN Basemaps : Basemaps[i] # s.currentBasemap THEN Throw(s)
    ELSE [MapSetStyle(s) EXCEPT
            !.styleLoadListeners = Append(@, s.camera)]

\* a call that follows statements that may have raised
ThenUpdateChargerLayer(s) == IF s.thrown THEN s ELSE updateChargerLayer(s)
ThenUpdateOverlayLayers(s) == IF s.thrown THEN s ELSE updateOverlayLayers(s)
ThenUpdateLegend(s) == IF s.thrown THEN s ELSE updateLegend(s)
ThenFlyToRegion(s) == IF s.thrown THEN s ELSE flyToRegion(s)

\* the listener of the first revision of changeBasemap, which re-adds the
\* analysis layers only
StyleLoadListenerLayersOnly(s, captured) ==
    updateLayers([s EXCEPT !.camera = captured])

\* the listener changeBasemap registers
StyleLoadListener(s, captured) ==
    ThenUpdateOverlayLayers(
        ThenUpdateChargerLayer(updateLayers([s EXCEPT !.camera = captured])))

RECURSIVE RunListeners(_, _)
RunListeners(s, listeners) ==
    IF listeners = <<>> \/ s.thrown THEN s
    ELSE RunListeners(StyleLoadListener(s, Head(listeners)), Tail(listeners))

\* the map's 'style.load' event: every waiting one-shot listener runs once
StyleLoadEvent(s) ==
    RunListeners([s EXCEPT !.styleLoaded = TRUE, !.styleLoadListeners = <<>>,
                           !.lastFired = Len(s.styleLoadListeners)],
                 s.styleLoadListeners)

\* the change listeners of setupEventListeners()
BasemapSelectChange(s, value) ==
    changeBasemap([s EXCEPT !.currentBasemap = value])

RegionSelectChange(s, value) ==
    ThenFlyToRegion(updateLayers([s EXCEPT !.currentRegion = value]))

StageRadioChange(s, value) ==
    ThenUpdateLegend(updateLayers([s EXCEPT !.currentStage = value]))

ChargerToggleChange(s, checked) ==
    updateChargerLayer([s EXCEPT !.showChargers = checked])

CarAvailabilityToggleChange(s, checked) ==
    ThenUpdateLegend(
        updateOverlayLayers([s EXCEPT !.showCarAvailability = checked]))

EvDistributionToggleChange(s, checked) ==
    ThenUpdateLegend(
        updateOverlayLayers([s EXCEPT !.showEvDistribution = checked]))

AnalysisLayerToggleChange(s, checked) ==
    updateLayers([s EXCEPT !.showAnalysisLayer = checked])

\* the constructor's fields, on a map whose first style has loaded
Constructed(mode) ==
    [ currentRegion |-> ALL,
      currentStage |-> <<"adoption", "_", "propensity">>,
      currentBasemap |-> "light", activeLayers |-> <<>>,
      showChargers |-> TRUE, showAnalysisLayer |-> TRUE,
      showCarAvailability |-> FALSE, showEvDistribution |-> FALSE,
      sources |-> {}, layers |-> <<>>, styleLoaded |-> TRUE,
      styleLoadListeners |-> <<>>,
      camera |-> [center |-> MapConfig.center, zoom |-> MapConfig.zoom],
      legend |-> <<>>, thrown |-> FALSE, errorEvent |-> FALSE,
      addWhileLoading |-> mode, lastFired |-> 0,
      infoPanel |-> [hidden |-> TRUE, content |-> <<>>],
      handlers |-> [recorded |-> FALSE, count |-> [k \in {} |-> 0]] ]

\* the map's 'load' listener of init()
OnLoad(s) ==
    ThenUpdateLegend(
        ThenUpdateOverlayLayers(ThenUpdateChargerLayer(updateLayers(s))))

(***************************************************************************)
(* Clicks.  A feature is [layer, properties]; properties is the list of    *)
(* <<key, value>> entries in Object.entries order, a value being           *)
(* <<"number", n>> or <<"string", s>>.                                     *)
(***************************************************************************)
GEO_CODE == <<"geo", "_", "code">>
GEOMETRY == <<"geometry">>

\* propMap of getKeyProperties
PropMap ==
    [stage \in {StageIds[i] : i \in DOMAIN StageIds} |->
      CASE stage = <<"adoption", "_", "propensity">> ->
             << GEO_CODE, <<"adoption", "_", "propensity", "_", "score">>,
                <<"home", "_", "charging", "_", "feasibility">> >>
        [] stage = <<"charging", "_", "network">> ->
             << GEO_CODE, <<"accessibility", "_", "score">>,
                <<"capacity", "_", "factor">> >>
        [] stage = <<"trip", "_", "purpose">> ->
             << <<"origin", "_", "code">>, <<"destination", "_", "code">>,
                <<"purpose">>, <<"distance", "_", "km">> >>
        [] stage = <<"range", "_", "feasibility">> ->
             << <<"origin", "_", "code">>, <<"destination", "_", "code">>,
                <<"feasibility", "_", "category">>, <<"distance", "_", "km">> >>
        [] stage = <<"conversion", "_", "potential">> ->
             << GEO_CODE, <<"conversion", "_", "potential">> >>
        [] stage = <<"ev", "_", "assignment", "_", "replaceable", "_", "only">> ->
             << GEO_CODE, <<"ev", "_", "type">>,
                <<"two", "_", "seater", "_", "score">>,
                <<"four", "_", "seater", "_", "score">> >>
        [] OTHER ->
             << GEO_CODE, <<"integrated", "_", "score">>,
                <<"deployment", "_", "priority">> >> ]

\* getKeyProperties(stage): propMap[stage] || ['geo_code']
getKeyProperties(stage) ==
    IF stage \in DOMAIN PropMap THEN PropMap[stage] ELSE <<GEO_CODE>>

\* formatPropertyLabel(prop): underscores to spaces, then every word
\* capitalised
formatPropertyLabel(prop) ==
    [i \in DOMAIN prop |->
        IF prop[i] = "_" THEN <<"space">> ELSE <<"capitalised", prop[i]>>]

\* prop.includes(word), for words that are whole parts of the name
Includes(prop, word) == \E i \in DOMAIN prop : prop[i] = word

\* formatPropertyValue(prop, value)
formatPropertyValue(prop, value) ==
    IF value[1] = "number"
    THEN IF Includes(prop, "score") \/ Includes(prop, "potential")
              \/ Includes(prop, "feasibility")
         THEN <<"toFixed(3)", value[2]>>
         ELSE IF Includes(prop, "distance") \/ Includes(prop, "km")
         THEN <<"toFixed(1) km", value[2]>>
         ELSE <<"toLocaleString", value[2]>>
    ELSE value

\* one <div class="info-row"> of the panel
InfoRow(label, value) == [label |-> label, value |-> value]

HasProperty(properties, key) ==
    \E i \in DOMAIN properties : properties[i][1] = key

GetProperty(properties, key) ==
    properties[CHOOSE i \in DOMAIN properties : properties[i][1] = key][2]

InSeq(x, seq) == \E i \in DOMAIN seq : seq[i] = x

\* keyProps.forEach: a row for each key property the feature has
KeyRows(keyProps, properties) ==
    LET present == SelectSeq(keyProps, LAMBDA k : HasProperty(properties, k))
    IN  [i \in DOMAIN present |->
            InfoRow(formatPropertyLabel(present[i]),
                    formatPropertyValue(present[i],
                                        GetProperty(properties, present[i])))]

\* the key properties not left out of the second pass
OtherRowsRepeatsKeys(keyProps, properties) ==
    LET others == SelectSeq(properties, LAMBDA e : e[1] # GEOMETRY)
    IN  [i \in DOMAIN others |->
            InfoRow(formatPropertyLabel(others[i][1]),
                    formatPropertyValue(others[i][1], others[i][2]))]

\* Object.entries(properties).forEach: a row for every other property
OtherRows(keyProps, properties) ==
    LET others == SelectSeq(properties,
                            LAMBDA e : ~InSeq(e[1], keyProps) /\ e[1] # GEOMETRY)
    IN  [i \in DOMAIN others |->
            InfoRow(formatPropertyLabel(others[i][1]),
                    formatPropertyValue(others[i][1], others[i][2]))]

\* map.queryRenderedFeatures(point, {layers}): of the features at the point,
\* those of the listed layers that are on the map
queryRenderedFeatures(s, hits, layerIds) ==
    SelectSeq(hits, LAMBDA f : InSeq(f.layer, layerIds) /\ MapGetLayer(s, f.layer))

\* handleMapClick(e)
handleMapClick(s, hits) ==
    LET features == queryRenderedFeatures(s, hits, s.activeLayers)
        keyProps == getKeyProperties(s.currentStage)
    IN  IF Len(features) = 0
        THEN [s EXCEPT !.infoPanel.hidden = TRUE]
        ELSE [s EXCEPT !.infoPanel =
                [hidden |-> FALSE,
                 content |-> KeyRows(keyProps, features[1].properties)
                             \o OtherRows(keyProps, features[1].properties)]]

\* the click listener updateChargerLayer registers for the charger layer; the
\* map calls it with the features of that layer at the click point, if any
ChargerLayerClick(s, hits) ==
    LET features == queryRenderedFeatures(s, hits, <<CHARGERS_LAYER>>)
        props == features[1].properties
        \* if (props.<key>) html += row
        Row(key, label) ==
            IF /\ HasProperty(props, key)
               /\ GetProperty(props, key) \notin {<<"string", "">>, <<"number", "0">>}
            THEN <<InfoRow(label, GetProperty(props, key))>>
            ELSE <<>>
    IN  IF Len(features) > 0
        THEN [s EXCEPT !.infoPanel =
                [hidden |-> FALSE,
                 content |->
                    Row(<<"title">>, <<<<"capitalised", "name">>>>)
                    \o Row(<<"town">>, <<<<"capitalised", "town">>>>)
                    \o Row(<<"postcode">>, <<<<"capitalised", "postcode">>>>)
                    \o Row(<<"number", "_", "of", "_", "points">>,
                           << <<"capitalised", "charging">>, <<"space">>,
                              <<"capitalised", "points">> >>)]]
        ELSE s

\* a click on the map: the listener of init() runs first, then the charger
\* layer's listener, registered since the 'load' event
MapClickEvent(s, hits) == ChargerLayerClick(handleMapClick(s, hits), hits)

\* the click listener of the close button
CloseInfoClick(s) == [s EXCEPT !.infoPanel.hidden = TRUE]

(***************************************************************************)
(* The state machine.                                                      *)
(***************************************************************************)
Min(a, b) == IF a < b THEN a ELSE b

RegionChoices ==
    {ALL} \cup {RegionIds[i] : i \in 1..Min(NumRegionChoices, Len(RegionIds))}
StageChoices == {StageIds[i] : i \in 1..Min(NumStageChoices, Len(StageIds))}
BasemapChoices ==
    {Basemaps[i] : i \in 1..Min(NumBasemapChoices, Len(Basemaps))}

\* values a select or radio element could also carry when its options do not
\* come from CONFIG
OtherRegionValues == {<<"car">>, <<"nowhere">>}
OtherStageValues == {<<"availability">>}

LoadingModes == {"throws", "silent"}

\* the R process before a script has started: pc is where the script is,
\* rng the state of the random number generator, log one entry per item a
\* batch loop has gone through, thrown whether an R error is in flight; the
\* other fields are the locals of the conversion routine being run
NoJob ==
    [pc |-> "none", driver |-> "none", routine |-> "none", i |-> 0, rng |-> 0, thrown |-> FALSE,
     log |-> <<>>, n_cols |-> 0, col_range |-> <<0, 0>>, cols |-> <<>>,
     file_size |-> 0, sample_rate |-> 100, n_original |-> 0, n_sample |-> 0,
     rows |-> {}, troubles |-> 0,
     events |-> <<>>, temp |-> "none", assumed |-> "none", crs |-> "none",
     archives |-> {}]

Commit(s) ==
    /\ currentRegion' = s.currentRegion
    /\ currentStage' = s.currentStage
    /\ currentBasemap' = s.currentBasemap
    /\ activeLayers' = s.activeLayers
    /\ showChargers' = s.showChargers
    /\ showAnalysisLayer' = s.showAnalysisLayer
    /\ showCarAvailability' = s.showCarAvailability
    /\ showEvDistribution' = s.showEvDistribution
    /\ sources' = s.sources
    /\ layers' = s.layers
    /\ styleLoaded' = s.styleLoaded
    /\ styleLoadListeners' = s.styleLoadListeners
    /\ camera' = s.camera
    /\ legend' = s.legend
    /\ addWhileLoading' = s.addWhileLoading
    /\ lastFired' = s.lastFired
    /\ infoPanel' = s.infoPanel
    /\ handlers' = s.handlers
    /\ job' = job

\* the variables that are not the map's content, as in record s
InitApp(s) ==
    /\ currentRegion = s.currentRegion
    /\ currentStage = s.currentStage
    /\ currentBasemap = s.currentBasemap
    /\ activeLayers = s.activeLayers
    /\ showChargers = s.showChargers
    /\ showAnalysisLayer = s.showAnalysisLayer
    /\ showCarAvailability = s.showCarAvailability
    /\ showEvDistribution = s.showEvDistribution
    /\ styleLoaded = s.styleLoaded
    /\ styleLoadListeners = s.styleLoadListeners
    /\ camera = s.camera
    /\ legend = s.legend
    /\ addWhileLoading = s.addWhileLoading
    /\ lastFired = s.lastFired
    /\ infoPanel = s.infoPanel
    /\ handlers = s.handlers

InitFrom(s) ==
    /\ InitApp(s)
    /\ sources = s.sources
    /\ layers = s.layers

Init ==
    /\ \E mode \in LoadingModes : InitFrom(OnLoad(Constructed(mode)))
    /\ job = NoJob

BasemapChange ==
    /\ Len(styleLoadListeners) < MaxPendingLoads
    /\ \E value \in BasemapChoices : Commit(BasemapSelectChange(Cur, value))

StyleLoad ==
    /\ ~styleLoaded
    /\ Commit(StyleLoadEvent(Cur))

RegionChange == \E value \in RegionChoices : Commit(RegionSelectChange(Cur, value))

StageChange == \E value \in StageChoices : Commit(StageRadioChange(Cur, value))

ChargerToggle == \E checked \in BOOLEAN : Commit(ChargerToggleChange(Cur, checked))

CarAvailabilityToggle ==
    \E checked \in BOOLEAN : Commit(CarAvailabilityToggleChange(Cur, checked))

EvDistributionToggle ==
    \E checked \in BOOLEAN : Commit(EvDistributionToggleChange(Cur, checked))

AnalysisLayerToggle ==
    \E checked \in BOOLEAN : Commit(AnalysisLayerToggleChange(Cur, checked))

Next ==
    \/ BasemapChange
    \/ StyleLoad
    \/ RegionChange
    \/ StageChange
    \/ ChargerToggle
    \/ CarAvailabilityToggle
    \/ EvDistributionToggle
    \/ AnalysisLayerToggle

Spec == Init /\ [][Next]_vars

(***************************************************************************)
(* The same handlers when the region and stage elements may carry any      *)
(* value, driven by region, stage, analysis-toggle and basemap events.     *)
(***************************************************************************)
AnyRegionValues == RegionChoices \cup OtherRegionValues
AnyStageValues == StageChoices \cup OtherStageValues

RegionChangeAny ==
    \E value \in AnyRegionValues : Commit(RegionSelectChange(Cur, value))

StageChangeAny ==
    \E value \in AnyStageValues : Commit(StageRadioChange(Cur, value))

NextAnyValue ==
    \/ BasemapChange
    \/ StyleLoad
    \/ RegionChangeAny
    \/ StageChangeAny
    \/ AnalysisLayerToggle

SpecAnyValue == Init /\ [][NextAnyValue]_vars

(***************************************************************************)
(* LAYERS.addLayer and LAYERS.removeLayer on their own: calls for a few    *)
(* (region, stage) pairs, from every map content the library allows over  *)
(* the sources and layers of those pairs and of the charger layer.         *)
(***************************************************************************)
\* how many regions the calls are made for
NumCallRegions == 1

CallRegions == [i \in 1..Min(NumCallRegions, Len(RegionIds)) |-> RegionIds[i]]
\* a polygon stage and a line stage
POLYGON_STAGE == <<"adoption", "_", "propensity">>
LINE_STAGE == <<"trip", "_", "purpose">>
CallStages == <<POLYGON_STAGE, LINE_STAGE>>

CallPairs ==
    {<<CallRegions[i], CallStages[j]>> :
        i \in DOMAIN CallRegions, j \in DOMAIN CallStages}

PairSource(region, stage) ==
    [id |-> region \o DASH \o stage \o SOURCE,
     url |-> getSourceUrl(region, stage)]

RECURSIVE UniverseLayersFrom(_)
\* the layers the calls can create, region by region, then the charger layer
UniverseLayersFrom(i) ==
    IF i > Len(CallRegions)
    THEN << [id |-> CHARGERS_LAYER, type |-> "circle",
             source |-> CHARGERS_SOURCE, sourceLayer |-> W("chargers")] >>
    ELSE LET region == CallRegions[i]
             polygonId == region \o DASH \o POLYGON_STAGE
             lineId == region \o DASH \o LINE_STAGE
         IN  << createPolygonFillStyle(polygonId \o SOURCE, polygonId,
                                       region, POLYGON_STAGE),
                createPolygonOutlineStyle(polygonId \o SOURCE, polygonId,
                                          region, POLYGON_STAGE),
                createLineStyle(lineId \o SOURCE, lineId, region, LINE_STAGE) >>
             \o UniverseLayersFrom(i + 1)

UniverseLayers == UniverseLayersFrom(1)

UniverseSources ==
    {PairSource(p[1], p[2]) : p \in CallPairs}
    \cup {[id |-> CHARGERS_SOURCE, url |-> W("chargers")]}

InitLayers ==
    \E mode \in LoadingModes, srcs \in SUBSET UniverseSources,
       present \in SUBSET (DOMAIN UniverseLayers) :
          /\ \A i \in present :
                \E src \in srcs : src.id = UniverseLayers[i].source
          /\ sources = srcs
          /\ layers = SelectSeq(UniverseLayers,
                                LAMBDA l : \E i \in present : UniverseLayers[i] = l)
          /\ InitApp(Constructed(mode))
          /\ job = NoJob

CallAddLayer == \E p \in CallPairs : Commit(addLayer(Cur, p[1], p[2]))

CallRemoveLayer == \E p \in CallPairs : Commit(removeLayer(Cur, p[1], p[2]))

NextLayers ==
    \/ CallAddLayer
    \/ CallRemoveLayer

SpecLayers == InitLayers /\ [][NextLayers]_vars

(***************************************************************************)
(* Clicks on the map, between stage changes and charger and analysis       *)
(* toggles.  The features under a click are an input: up to two features,  *)
(* the first with any list of at most MaxProperties distinct properties.   *)
(***************************************************************************)
\* how many properties the clicked feature carries at most
MaxProperties == 3

\* the property names of the features, each with the value it carries
ClickProperties ==
    { <<GEO_CODE, <<"string", "S01000001">>>>,
      <<<<"adoption", "_", "propensity", "_", "score">>, <<"number", "0.25">>>>,
      <<GEOMETRY, <<"string", "{}">>>>,
      <<<<"number", "_", "of", "_", "points">>, <<"number", "4">>>> }

RECURSIVE PropertyLists(_)
\* the lists of at most n distinct properties, in any order
PropertyLists(n) ==
    IF n = 0 THEN {<<>>}
    ELSE PropertyLists(n - 1)
         \cup {Append(pair[1], pair[2]) :
                 pair \in {x \in PropertyLists(n - 1) \X ClickProperties :
                             Len(x[1]) = n - 1 /\ ~InSeq(x[2], x[1])}}

\* the features under a click: none, one, or two.  They lie on an analysis
\* layer of the current stage, on its outline or on the charger layer.
ClickHits(s) ==
    LET analysis == RegionIds[1] \o DASH \o s.currentStage
        first == [layer : {analysis, analysis \o OUTLINE, CHARGERS_LAYER},
                  properties : PropertyLists(MaxProperties)]
        second == [layer : {analysis, CHARGERS_LAYER},
                   properties : {<< <<GEO_CODE, <<"string", "S01000002">>>> >>}]
    IN  {<<>>} \cup {<<f>> : f \in first}
               \cup {<<f, g>> : f \in first, g \in second}

MapClick == \E hits \in ClickHits(Cur) : Commit(MapClickEvent(Cur, hits))

CloseInfo == Commit(CloseInfoClick(Cur))

NextClick ==
    \/ StageChange
    \/ ChargerToggle
    \/ AnalysisLayerToggle
    \/ MapClick
    \/ CloseInfo

SpecClick == Init /\ [][NextClick]_vars

(***************************************************************************)
(* The legend under every configured stage and every overlay toggle.       *)
(***************************************************************************)
StageChangeAll ==
    \E i \in DOMAIN StageIds : Commit(StageRadioChange(Cur, StageIds[i]))

NextLegend ==
    \/ StageChangeAll
    \/ AnalysisLayerToggle
    \/ CarAvailabilityToggle
    \/ EvDistributionToggle

SpecLegend == Init /\ [][NextLegend]_vars

(***************************************************************************)
(* The conversion scripts.  A file size is in tenths of a GB and a         *)
(* sampling rate in percent, so that the thresholds and rates of the       *)
(* scripts are integers; for the rates of the scripts and every row count  *)
(* up to 30 million the double product n_original * sample_rate has the    *)
(* ceiling of the exact product.                                           *)
(***************************************************************************)
\* the seed of set.seed(42)
SEED == 42

COLUMN_RANGES ==
    << [stage |-> <<"adoption", "_", "propensity">>, range |-> <<418, 438>>],
       [stage |-> <<"charging", "_", "network">>, range |-> <<418, 434>>],
       [stage |-> <<"trip", "_", "purpose">>, range |-> <<15, 25>>],
       [stage |-> <<"range", "_", "feasibility">>, range |-> <<3, 10>>],
       [stage |-> <<"conversion", "_", "potential">>, range |-> <<418, 439>>],
       [stage |-> <<"integrated", "_", "conversion", "_", "with", "_", "ev",
                    "_", "types">>, range |-> <<418, 444>>],
       [stage |-> <<"ev", "_", "assignment", "_", "replaceable", "_", "only">>,
        range |-> <<418, 451>>] >>

\* the column indices of sf_data[, start_col:end_col]; a:b counts down when
\* a > b
select_columnsUnclipped(col_range, n_cols) ==
    [k \in 1..(col_range[2] - col_range[1] + 1) |-> col_range[1] + k - 1]

select_columns(col_range, n_cols) ==
    LET start_col == Min(col_range[1], n_cols)
        end_col == Min(col_range[2], n_cols)
    IN  IF start_col <= end_col
        THEN [k \in 1..(end_col - start_col + 1) |-> start_col + k - 1]
        ELSE [k \in 1..(start_col - end_col + 1) |-> start_col - k + 1]

\* sample_rate of the first revision of convert_line_layer
sample_rate_firstSwapped(file_size_gb) ==
    IF file_size_gb > 50 THEN 30
    ELSE IF file_size_gb > 10 THEN 10
    ELSE IF file_size_gb > 5 THEN 50
    ELSE 100

sample_rate_first(file_size_gb) ==
    IF file_size_gb > 50 THEN 10
    ELSE IF file_size_gb > 10 THEN 30
    ELSE IF file_size_gb > 5 THEN 50
    ELSE 100

\* sample_rate of the current convert_line_layer
sample_rate_atThreshold(file_size_gb) ==
    IF file_size_gb >= 100 THEN 1
    ELSE IF file_size_gb >= 30 THEN 3
    ELSE IF file_size_gb >= 10 THEN 5
    ELSE IF file_size_gb >= 5 THEN 10
    ELSE IF file_size_gb >= 1 THEN 15
    ELSE 100

sample_rate(file_size_gb) ==
    IF file_size_gb > 100 THEN 1
    ELSE IF file_size_gb > 30 THEN 3
    ELSE IF file_size_gb > 10 THEN 5
    ELSE IF file_size_gb > 5 THEN 10
    ELSE IF file_size_gb > 1 THEN 15
    ELSE 100

\* ceiling(n_original * sample_rate)
ceilingRoundsDown(n_original, rate) == (n_original * rate) \div 100

ceiling(n_original, rate) == (n_original * rate + 99) \div 100

\* sample(n, size) of R from generator state rng: size distinct indices out
\* of 1..n, a function of the generator state, which the draw advances; an
\* error when size > n
sample(rng, n, size) ==
    IF size > n THEN [error |-> TRUE, rows |-> {}, rng |-> rng]
    ELSE [error |-> FALSE,
          rows |-> {((rng + k) % n) + 1 : k \in 0..(size - 1)},
          rng |-> (5 * rng + size + 1) % 64]

\* The choice of the rate and the sampling block of a line routine on job
\* j: both revisions of convert_line_layer choose the rate from the file
\* size and sample under if (sample_rate < 1.0), convert_line and
\* convert_large_line_layer take the rate as an argument and always sample.
sample_rowsUnseeded(j) ==
    LET by_size == j.routine \in {"convert_line_layer_first",
                                  "convert_line_layer"}
        rate == IF j.routine = "convert_line_layer_first"
                THEN sample_rate_first(j.file_size)
                ELSE IF j.routine = "convert_line_layer"
                     THEN sample_rate(j.file_size)
                ELSE j.sample_rate
        n_sample == ceiling(j.n_original, rate)
        draw == sample(j.rng, j.n_original, n_sample)
    IN  IF by_size /\ ~(rate < 100)
        THEN [j EXCEPT !.sample_rate = rate, !.rows = 1..j.n_original]
        ELSE [j EXCEPT !.sample_rate = rate, !.n_sample = n_sample,
                       !.rng = draw.rng, !.rows = draw.rows,
                       !.thrown = draw.error]

sample_rows(j) ==
    LET by_size == j.routine \in {"convert_line_layer_first",
                                  "convert_line_layer"}
        rate == IF j.routine = "convert_line_layer_first"
                THEN sample_rate_first(j.file_size)
                ELSE IF j.routine = "convert_line_layer"
                     THEN sample_rate(j.file_size)
                ELSE j.sample_rate
        n_sample == ceiling(j.n_original, rate)
        \* set.seed(42) puts the generator into state SEED
        draw == sample(SEED, j.n_original, n_sample)
    IN  IF by_size /\ ~(rate < 100)
        THEN [j EXCEPT !.sample_rate = rate, !.rows = 1..j.n_original]
        ELSE [j EXCEPT !.sample_rate = rate, !.n_sample = n_sample,
                       !.rng = draw.rng, !.rows = draw.rows,
                       !.thrown = draw.error]

REGIONS ==
    <<"HITRANS", "Nestrans", "SESTRAN", "SPT", "SWESTRANS", "Tactran", "ZetTrans">>

POLYGON_STAGES ==
    << <<"adoption", "_", "propensity">>,
       <<"charging", "_", "network">>,
       <<"conversion", "_", "potential">>,
       <<"ev", "_", "assignment", "_", "replaceable", "_", "only">>,
       <<"integrated", "_", "conversion", "_", "with", "_", "ev", "_", "types">> >>

LINE_STAGES == << <<"trip", "_", "purpose">>, <<"range", "_", "feasibility">> >>

\* the (region, stage) pairs convert_all goes through: for each region the
\* polygon stages, then the line stages
convert_all_items ==
    LET Of(region) ==
            [s \in 1..Len(POLYGON_STAGES) |->
                [region |-> region, stage |-> POLYGON_STAGES[s],
                 type |-> "polygon", sample_rate |-> 100]]
            \o [s \in 1..Len(LINE_STAGES) |->
                [region |-> region, stage |-> LINE_STAGES[s],
                 type |-> "line", sample_rate |-> 100]]
        RECURSIVE Upto(_)
        Upto(r) == IF r = 0 THEN <<>> ELSE Upto(r - 1) \o Of(REGIONS[r])
    IN  Upto(Min(NumBatchRegions, Len(REGIONS)))

\* the list of the missing-files script (a polygon item has no sample and
\* is not sampled; each line item names its sample)
missing ==
    LET Polygons(region) ==
            [s \in 1..5 |->
                [region |-> region, type |-> "polygon", sample_rate |-> 100,
                 stage |-> << <<"adoption", "_", "propensity">>,
                              <<"charging", "_", "network">>,
                              <<"conversion", "_", "potential">>,
                              <<"ev", "_", "assignment", "_", "replaceable",
                                "_", "only">>,
                              <<"integrated", "_", "conversion", "_", "with",
                                "_", "ev", "_", "types">> >>[s]]]
    IN  Polygons("SPT")
        \o Polygons("SWESTRANS")
        \o << [region |-> "SWESTRANS", type |-> "line", sample_rate |-> 15,
               stage |-> <<"trip", "_", "purpose">>],
              [region |-> "SWESTRANS", type |-> "line", sample_rate |-> 5,
               stage |-> <<"range", "_", "feasibility">>] >>
        \o Polygons("Tactran")

LARGE_FILES ==
    << [region |-> "SESTRAN", stage |-> <<"trip", "_", "purpose">>,
        type |-> "line", col_range |-> <<15, 25>>, sample_rate |-> 15],
       [region |-> "SESTRAN", stage |-> <<"range", "_", "feasibility">>,
        type |-> "line", col_range |-> <<3, 10>>, sample_rate |-> 5],
       [region |-> "SPT", stage |-> <<"trip", "_", "purpose">>,
        type |-> "line", col_range |-> <<15, 25>>, sample_rate |-> 10],
       [region |-> "SPT", stage |-> <<"range", "_", "feasibility">>,
        type |-> "line", col_range |-> <<3, 10>>, sample_rate |-> 5],
       [region |-> "Tactran", stage |-> <<"trip", "_", "purpose">>,
        type |-> "line", col_range |-> <<15, 25>>, sample_rate |-> 15],
       [region |-> "Tactran", stage |-> <<"range", "_", "feasibility">>,
        type |-> "line", col_range |-> <<3, 10>>, sample_rate |-> 10] >>

\* the two converters convert_overlays calls, one after the other; each
\* names its archive and its tile layer itself
convert_overlays ==
    << [region |-> "convert_car_availability", type |-> "polygon",
        sample_rate |-> 100, stage |-> <<"car", "_", "availability">>],
       [region |-> "convert_ev_distribution", type |-> "polygon",
        sample_rate |-> 100, stage |-> <<"ev", "_", "distribution">>] >>

\* the list a batch driver loops over
batch_items(driver) ==
    CASE driver = "convert_all" -> convert_all_items
      [] driver = "missing" -> missing
      [] driver = "LARGE_FILES" -> LARGE_FILES
      [] driver = "convert_overlays" -> convert_overlays

\* upper case left as it is
tolowerKeepsCase(x) == x

\* tolower(x) on the names of REGIONS
tolower(x) ==
    CASE x = "HITRANS" -> "hitrans"
      [] x = "Nestrans" -> "nestrans"
      [] x = "SESTRAN" -> "sestran"
      [] x = "SPT" -> "spt"
      [] x = "SWESTRANS" -> "swestrans"
      [] x = "Tactran" -> "tactran"
      [] x = "ZetTrans" -> "zettrans"

\* the name a driver gives the archive of an item; the routine uses it as
\* file stem (paste0(output_name, ".pmtiles")) and as tile layer name (-l)
output_name(driver, item) ==
    IF driver = "convert_overlays" THEN item.stage
    ELSE <<tolower(item.region)>> \o US \o item.stage

\* The coordinate handling of a routine, before st_make_valid.  crs is the
\* system of the container: "none", "4326", "epsg_other" (another system
\* with an EPSG code) or another system without a code, whose $epsg reads
\* NA ("no_epsg_na") or NULL ("no_epsg_null").  assumed is the system set on
\* data that had none, crs the system the data is in afterwards.  A
\* condition of if that is NA or of length zero raises an error.
reproject(j, routine, crs) ==
    IF routine \in {"convert_line", "convert_large_line_layer"}
    THEN \* NA gets 27700; st_transform if epsg is not NULL and not 4326
         IF crs = "none" THEN [j EXCEPT !.assumed = "27700", !.crs = "4326"]
         ELSE IF crs = "no_epsg_na" THEN [j EXCEPT !.crs = crs, !.thrown = TRUE]
         ELSE IF crs = "no_epsg_null" THEN [j EXCEPT !.crs = crs]
         ELSE [j EXCEPT !.crs = "4326"]
    ELSE IF routine = "convert_car_availability"
    THEN \* NA gets 4326; otherwise st_transform if epsg != 4326
         IF crs = "none" THEN [j EXCEPT !.assumed = "4326", !.crs = "4326"]
         ELSE IF crs \in {"no_epsg_na", "no_epsg_null"}
              THEN [j EXCEPT !.crs = crs, !.thrown = TRUE]
         ELSE [j EXCEPT !.crs = "4326"]
    ELSE \* NA gets 27700; st_transform(sf_data, 4326) in every case
         IF crs = "none" THEN [j EXCEPT !.assumed = "27700", !.crs = "4326"]
         ELSE [j EXCEPT !.crs = "4326"]

\* One conversion routine on the container of item number i of the driver's
\* list.  in is what the routine meets: fails says where an R error is
\* raised ("read": in st_read, "write": in st_write once the transient file
\* has been created, "none"), n_cols, file_size and n_original describe the
\* container, crs its coordinate system, made says whether the tile archive
\* exists after the subprocess has returned.  events lists what the routine
\* did, temp says what became of its transient file.  The routine ends with
\* an entry in the log: "created", "failed" (the archive is not there and
\* the routine says so) or "nothing" (the routines of the missing-files
\* script say nothing then).
convert(j, i, in) ==
    LET item == batch_items(j.driver)[i]
        col_range ==
            IF j.driver = "LARGE_FILES" THEN item.col_range
            ELSE IF j.driver = "convert_overlays" THEN <<0, 0>>
            ELSE COLUMN_RANGES[CHOOSE c \in DOMAIN COLUMN_RANGES :
                                   COLUMN_RANGES[c].stage = item.stage].range
        routine ==
            IF j.driver = "LARGE_FILES" THEN "convert_large_line_layer"
            ELSE IF j.driver = "convert_overlays" THEN item.region
            ELSE IF j.driver = "missing"
                 THEN IF item.type = "line" THEN "convert_line"
                      ELSE "convert_polygon"
            ELSE IF item.type = "line" THEN "convert_line_layer"
                 ELSE "convert_polygon_layer"
        \* the locals of the call start afresh
        call == [j EXCEPT !.routine = routine, !.n_cols = 0,
                          !.col_range = col_range, !.cols = <<>>,
                          !.file_size = in.file_size, !.n_original = 0,
                          !.sample_rate = item.sample_rate, !.n_sample = 0,
                          !.rows = {}, !.events = <<>>, !.temp = "none",
                          !.assumed = "none", !.crs = "none"]
        read == [call EXCEPT !.n_cols = in.n_cols,
                             !.n_original = in.n_original,
                             !.events = Append(@, "st_read"),
                             !.cols = IF j.driver = "convert_overlays" THEN <<>>
                                      ELSE select_columns(col_range, in.n_cols)]
        sampled == IF item.type = "line" THEN sample_rows(read) ELSE read
        reprojected == reproject(sampled, routine, in.crs)
        repaired == [reprojected EXCEPT !.events = Append(@, "st_make_valid")]
        written == [repaired EXCEPT !.events = Append(@, "st_write"),
                                    !.temp = "exists"]
        name == output_name(j.driver, item)
        \* system(cmd); unlink(temp_geojson); if (file.exists(output_path))
        checked == [written EXCEPT
                      !.events = @ \o <<"system", "unlink", "file.exists">>,
                      !.temp = "deleted",
                      !.archives = IF in.made THEN @ \cup {name} ELSE @ \ {name}]
        outcome == IF in.made THEN "created"
                   ELSE IF j.driver = "missing" THEN "nothing" ELSE "failed"
    IN  IF in.fails = "read" THEN [call EXCEPT !.thrown = TRUE]
        ELSE IF sampled.thrown THEN sampled
        ELSE IF reprojected.thrown THEN reprojected
        ELSE IF in.fails = "write" THEN [written EXCEPT !.thrown = TRUE]
        ELSE [checked EXCEPT !.log = Append(@, [item |-> i, outcome |-> outcome])]

\* tryCatch(expr, error = function(e) message(...)) around item i, j being
\* the job after expr
tryCatchRethrows(j, i) == j

tryCatch(j, i) ==
    IF j.thrown
    THEN [j EXCEPT !.thrown = FALSE,
                   !.log = Append(@, [item |-> i, outcome |-> "error"])]
    ELSE j

\* the missing container read all the same
skipReadsAnyway(j, i) ==
    [j EXCEPT !.events = <<"st_read">>, !.thrown = TRUE]

\* message(sprintf("  Skipping %s: file not found", ...)) and on to the next
\* item (next in the loops, return(NULL) in convert_large_line_layer,
\* return() after "ERROR: File not found" in the overlay converters)
skip(j, i) ==
    [j EXCEPT !.log = Append(@, [item |-> i, outcome |-> "skipped"])]

\* One pass through the body of a driver's loop, at item j.i.  in.dir says
\* whether the region directory is there where convert_all looks for it
\* (before the first stage of a region), in.exists whether the container is.
\* In convert_all a missing region directory skips the stages of the region
\* (each is entered in the log as "nodir"); a missing container is skipped
\* by the loop, in the LARGE_FILES loop and in convert_overlays by the
\* routine.  convert_overlays has no tryCatch.  An error that leaves the body
\* ends the script.
loop_body(j0, in) ==
    LET \* nothing has been done in this pass yet
        j == [j0 EXCEPT !.events = <<>>, !.temp = "none", !.assumed = "none",
                        !.crs = "none"]
        items == batch_items(j.driver)
        i == j.i
        region_end ==
            CHOOSE k \in i..Len(items) :
               /\ \A m \in i..k : items[m].region = items[i].region
               /\ k = Len(items) \/ items[k + 1].region # items[i].region
        done ==
            IF ~in.dir
            THEN [j EXCEPT !.i = region_end,
                           !.log = @ \o [m \in 1..(region_end - i + 1) |->
                                           [item |-> i + m - 1,
                                            outcome |-> "nodir"]]]
            ELSE IF ~in.exists THEN skip(j, i)
            ELSE IF j.driver = "convert_overlays" THEN convert(j, i, in)
            ELSE tryCatch(convert(j, i, in), i)
    IN  IF done.thrown THEN [done EXCEPT !.pc = "aborted"]
        ELSE [done EXCEPT !.i = @ + 1]

(***************************************************************************)
(* The conversion scripts as a state machine: the column selection and     *)
(* the sampling block on every container within the bounds; further down   *)
(* the batch drivers, whose items are missing or fail at most MaxTroubles  *)
(* times in a run.                                                         *)
(***************************************************************************)
RunJob(j) ==
    /\ job' = j
    /\ UNCHANGED <<currentRegion, currentStage, currentBasemap, activeLayers,
                   showChargers, showAnalysisLayer, showCarAvailability,
                   showEvDistribution, sources, layers, styleLoaded,
                   styleLoadListeners, camera, legend, addWhileLoading,
                   lastFired, infoPanel, handlers>>

InitPipeline ==
    /\ InitFrom(Constructed("throws"))
    /\ \/ \E c \in DOMAIN COLUMN_RANGES, n_cols \in 1..MaxCols :
             job = [NoJob EXCEPT !.pc = "columns", !.n_cols = n_cols,
                                 !.col_range = COLUMN_RANGES[c].range]
       \/ \E routine \in {"convert_line_layer_first", "convert_line_layer"},
             file_size \in 0..MaxFileSize, n_original \in 1..MaxRows,
             rng \in 0..MaxRngEntry :
             job = [NoJob EXCEPT !.pc = "sampling", !.routine = routine,
                                 !.file_size = file_size, !.rng = rng,
                                 !.n_original = n_original]
       \/ \E routine \in {"convert_line", "convert_large_line_layer"},
             rate \in {1, 5, 10, 15, 50, 100}, n_original \in 1..MaxRows,
             rng \in 0..MaxRngEntry :
             job = [NoJob EXCEPT !.pc = "sampling", !.routine = routine,
                                 !.sample_rate = rate, !.rng = rng,
                                 !.n_original = n_original]

SelectColumns ==
    /\ job.pc = "columns"
    /\ RunJob([job EXCEPT !.pc = "selected",
                          !.cols = select_columns(job.col_range, job.n_cols)])

SampleRows ==
    /\ job.pc = "sampling"
    /\ RunJob([sample_rows(job) EXCEPT !.pc = "sampled"])

NextPipeline ==
    \/ SelectColumns
    \/ SampleRows

SpecPipeline == InitPipeline /\ [][NextPipeline]_vars

(***************************************************************************)
(* The three batch drivers, from either generator state.                   *)
(***************************************************************************)
InitBatch ==
    /\ InitFrom(Constructed("throws"))
    /\ \E driver \in {"convert_all", "missing", "LARGE_FILES", "convert_overlays"},
          rng \in 0..MaxRngEntry :
          job = [NoJob EXCEPT !.pc = "loop", !.driver = driver,
                              !.i = 1, !.rng = rng]

BatchItem ==
    LET items == batch_items(job.driver)
        \* convert_all looks for the directory of a region before the first
        \* stage of the region
        first_of_region ==
            /\ job.driver = "convert_all"
            /\ job.i = 1 \/ items[job.i - 1].region # items[job.i].region
    IN  /\ job.pc = "loop"
        /\ job.i <= Len(items)
        /\ \E dir \in IF first_of_region THEN BOOLEAN ELSE {TRUE},
              exists \in BOOLEAN, made \in BOOLEAN,
              fails \in {"none", "read", "write"}, file_size \in {3, 120},
              n_original \in {3, 8},
              crs \in {"none", "epsg_other"} :
              LET trouble == ~dir \/ ~exists \/ ~made \/ fails # "none"
                  \* what the pass never gets to see is not drawn twice: the
                  \* content of a container that is missing or cannot be
                  \* read, the archive of a routine that raises an error
                  seen == /\ (~dir \/ ~exists) =>
                               fails = "none" /\ file_size = 3
                          /\ (~dir \/ ~exists \/ fails = "read") =>
                               n_original = 3 /\ crs = "epsg_other"
                          /\ (~dir \/ ~exists \/ fails # "none") => made
              IN  /\ seen
                  /\ trouble => job.troubles < MaxTroubles
                  /\ RunJob(loop_body(
                        [job EXCEPT !.troubles = IF trouble THEN @ + 1 ELSE @],
                        [dir |-> dir, exists |-> exists, made |-> made,
                         fails |-> fails, n_cols |-> 20, crs |-> crs,
                         file_size |-> file_size,
                         n_original |-> n_original]))

Summary ==
    /\ job.pc = "loop"
    /\ job.i > Len(batch_items(job.driver))
    /\ RunJob([job EXCEPT !.pc = "summary"])

NextBatch ==
    \/ BatchItem
    \/ Summary

SpecBatch == InitBatch /\ [][NextBatch]_vars

(***************************************************************************)
(* The viewer with its delegated listeners recorded: the events that run   *)
(* updateLayers or updateChargerLayer, as long as no layer id has more     *)
(* than MaxHandlers listeners of a type.                                   *)
(***************************************************************************)
InitHandlers ==
    /\ \E mode \in LoadingModes :
          InitFrom(OnLoad([Constructed(mode) EXCEPT !.handlers.recorded = TRUE]))
    /\ job = NoJob

HandlerEvent(t) ==
    /\ \A k \in DOMAIN t.handlers.count : t.handlers.count[k] <= MaxHandlers
    /\ Commit(t)

NextHandlers ==
    \/ /\ Len(styleLoadListeners) < MaxPendingLoads
       /\ \E value \in BasemapChoices : HandlerEvent(BasemapSelectChange(Cur, value))
    \/ /\ ~styleLoaded
       /\ HandlerEvent(StyleLoadEvent(Cur))
    \/ \E value \in RegionChoices : HandlerEvent(RegionSelectChange(Cur, value))
    \/ \E i \in 1..Min(NumHandlerStages, Len(StageIds)) :
          HandlerEvent(StageRadioChange(Cur, StageIds[i]))
    \/ \E checked \in BOOLEAN : HandlerEvent(ChargerToggleChange(Cur, checked))
    \/ \E checked \in BOOLEAN : HandlerEvent(AnalysisLayerToggleChange(Cur, checked))

SpecHandlers == InitHandlers /\ [][NextHandlers]_vars

(***************************************************************************)
(* What is on the map, and what the selection asks for.                    *)
(***************************************************************************)
SourceIds == {src.id : src \in sources}
LayerIds == {layers[i].id : i \in DOMAIN layers}
ActiveIds == {activeLayers[i] : i \in DOMAIN activeLayers}

IsPolygonStage(stage) == HasStage(stage) /\ StageConfig(stage).type = "polygon"

\* the sources and layers of the charger layer and of the two overlays
OverlaySourceIds ==
    {CHARGERS_SOURCE, CAR_AVAILABILITY \o SOURCE, EV_DISTRIBUTION \o SOURCE}
OverlayLayerIds ==
    {CHARGERS_LAYER, CAR_AVAILABILITY, CAR_AVAILABILITY \o OUTLINE,
     EV_DISTRIBUTION, EV_DISTRIBUTION \o OUTLINE}

AnalysisSources == {src \in sources : src.id \notin OverlaySourceIds}
AnalysisLayers ==
    {layers[i] : i \in {j \in DOMAIN layers : layers[j].id \notin OverlayLayerIds}}

SelectedRegions ==
    IF currentRegion = ALL THEN {RegionIds[i] : i \in DOMAIN RegionIds}
    ELSE {currentRegion}

WantedAnalysisIds ==
    IF showAnalysisLayer
    THEN {r \o DASH \o currentStage :
            r \in {x \in SelectedRegions : x \o US \o currentStage \in AvailableFiles}}
    ELSE {}

WantedSourceIds ==
    {id \o SOURCE : id \in WantedAnalysisIds}
    \cup (IF showChargers THEN {CHARGERS_SOURCE} ELSE {})
    \cup (IF showCarAvailability THEN {CAR_AVAILABILITY \o SOURCE} ELSE {})
    \cup (IF showEvDistribution THEN {EV_DISTRIBUTION \o SOURCE} ELSE {})

WantedLayerIds ==
    WantedAnalysisIds
    \cup (IF IsPolygonStage(currentStage)
          THEN {id \o OUTLINE : id \in WantedAnalysisIds} ELSE {})
    \cup (IF showChargers THEN {CHARGERS_LAYER} ELSE {})
    \cup (IF showCarAvailability
          THEN {CAR_AVAILABILITY, CAR_AVAILABILITY \o OUTLINE} ELSE {})
    \cup (IF showEvDistribution
          THEN {EV_DISTRIBUTION, EV_DISTRIBUTION \o OUTLINE} ELSE {})

(***************************************************************************)
(* C1: in every reachable state, also between a basemap change and its     *)
(* style.load event, every id in activeLayers has its source <id>-source   *)
(* and its layer <id> on the map, and <id>-outline exactly when the stage  *)
(* is a polygon stage.                                                     *)
(***************************************************************************)
C1_ActiveLayersAreOnMap ==
    \A id \in ActiveIds :
        /\ id \o SOURCE \in SourceIds
        /\ id \in LayerIds
        /\ (id \o OUTLINE \in LayerIds) <=> IsPolygonStage(currentStage)

EndsWithoutError(s) == ~s.thrown /\ ~s.errorEvent

C3_OnlyListedSources ==
    /\ \A src \in AnalysisSources :
          /\ src.url \in AvailableFiles
          /\ \E r \in AnyRegionValues \cup SelectedRegions, st \in AnyStageValues :
                /\ src.id = r \o DASH \o st \o SOURCE
                /\ r \o US \o st \in AvailableFiles
    /\ EndsWithoutError(updateLayers(Cur))

\* a selection whose pair is not listed has been skipped on a loaded map
C3_Witness ==
    /\ styleLoaded /\ showAnalysisLayer
    /\ currentRegion = <<"nowhere">>
    /\ currentStage \in StageChoices
    /\ AnalysisSources = {}
    /\ activeLayers = <<>>

(***************************************************************************)
(* C4: once every pending style.load event has been delivered, the map     *)
(* holds exactly the sources and layers the selection asks for: the        *)
(* analysis layers of the current region and stage when the analysis layer *)
(* is enabled, the charger layer iff showChargers, each overlay iff its    *)
(* toggle is on.                                                           *)
(***************************************************************************)
C4_MapMatchesSelectionAfterLoad ==
    (styleLoaded /\ styleLoadListeners = <<>>)
        => (SourceIds = WantedSourceIds /\ LayerIds = WantedLayerIds)

\* a style.load event that ran the listeners of two basemap changes, with an
\* overlay and the analysis layers to put back
C4_Witness ==
    /\ lastFired = 2 /\ styleLoaded /\ styleLoadListeners = <<>>
    /\ showCarAvailability /\ showAnalysisLayer /\ showChargers
    /\ CAR_AVAILABILITY \in LayerIds
    /\ activeLayers # <<>>

C6_LegendMatchesState == legend = updateLegend(Cur).legend

(***************************************************************************)
(* C7: from any reachable state in which an overlay (car availability, EV  *)
(* distribution, chargers) is off, toggling it on and then off leaves the  *)
(* map's sources and layers as they were.                                  *)
(***************************************************************************)
MapContent(s) == <<s.sources, {s.layers[i] : i \in DOMAIN s.layers}>>

CarOnThenOff(s) ==
    CarAvailabilityToggleChange(Ended(CarAvailabilityToggleChange(s, TRUE)),
                                FALSE)
EvOnThenOff(s) ==
    EvDistributionToggleChange(Ended(EvDistributionToggleChange(s, TRUE)),
                               FALSE)
ChargersOnThenOff(s) ==
    ChargerToggleChange(Ended(ChargerToggleChange(s, TRUE)), FALSE)

C7_OverlayOnOffRestoresMap ==
    /\ ~showCarAvailability => MapContent(CarOnThenOff(Cur)) = MapContent(Cur)
    /\ ~showEvDistribution => MapContent(EvOnThenOff(Cur)) = MapContent(Cur)
    /\ ~showChargers => MapContent(ChargersOnThenOff(Cur)) = MapContent(Cur)

\* the three overlays are off on a loaded map that shows analysis layers, and
\* switching one on does put its source and layers on the map
C7_Witness ==
    /\ styleLoaded /\ activeLayers # <<>>
    /\ ~showCarAvailability /\ ~showEvDistribution /\ ~showChargers
    /\ MapGetLayer(CarAvailabilityToggleChange(Cur, TRUE),
                   CAR_AVAILABILITY \o OUTLINE)
    /\ MapGetSource(EvDistributionToggleChange(Cur, TRUE),
                    EV_DISTRIBUTION \o SOURCE)
    /\ MapGetLayer(ChargerToggleChange(Cur, TRUE), CHARGERS_LAYER)

(***************************************************************************)
(* C8: toggling car availability, EV distribution or chargers changes only *)
(* that overlay's own source and layers: activeLayers, currentRegion,      *)
(* currentStage, the analysis sources and layers and the sources and       *)
(* layers of the other two overlays stay as they are.                      *)
(***************************************************************************)
OthersKept(s, t, ownSources, ownLayers) ==
    /\ t.activeLayers = s.activeLayers
    /\ t.currentRegion = s.currentRegion
    /\ t.currentStage = s.currentStage
    /\ {src \in t.sources : src.id \notin ownSources}
         = {src \in s.sources : src.id \notin ownSources}
    /\ SelectSeq(t.layers, LAMBDA l : l.id \notin ownLayers)
         = SelectSeq(s.layers, LAMBDA l : l.id \notin ownLayers)

C8_OverlayToggleFrame ==
    \A checked \in BOOLEAN :
      /\ OthersKept(Cur, CarAvailabilityToggleChange(Cur, checked),
                    {CAR_AVAILABILITY \o SOURCE},
                    {CAR_AVAILABILITY, CAR_AVAILABILITY \o OUTLINE})
      /\ OthersKept(Cur, EvDistributionToggleChange(Cur, checked),
                    {EV_DISTRIBUTION \o SOURCE},
                    {EV_DISTRIBUTION, EV_DISTRIBUTION \o OUTLINE})
      /\ OthersKept(Cur, ChargerToggleChange(Cur, checked),
                    {CHARGERS_SOURCE}, {CHARGERS_LAYER})

\* both polygon overlays have been switched on and the chargers off, next to
\* analysis layers, and a further toggle does change the map
C8_Witness ==
    /\ styleLoaded /\ activeLayers # <<>>
    /\ showCarAvailability /\ showEvDistribution /\ ~showChargers
    /\ {CAR_AVAILABILITY, EV_DISTRIBUTION} \subseteq LayerIds
    /\ ~MapGetLayer(CarAvailabilityToggleChange(Cur, FALSE), CAR_AVAILABILITY)
    /\ MapGetLayer(ChargerToggleChange(Cur, TRUE), CHARGERS_LAYER)

(***************************************************************************)
(* C9: LAYERS.removeLayer(map, region, stage) ends without an error        *)
(* whichever of <region>-<stage>, <region>-<stage>-outline and             *)
(* <region>-<stage>-source are on the map, leaves none of the three on it, *)
(* and leaves every other source and layer, and the rest of the state,     *)
(* unchanged.                                                              *)
(***************************************************************************)
RemovedExactly(s, t, id) ==
    /\ EndsWithoutError(t)
    /\ ~MapGetLayer(t, id)
    /\ ~MapGetLayer(t, id \o OUTLINE)
    /\ ~MapGetSource(t, id \o SOURCE)
    /\ t.sources = {src \in s.sources : src.id # id \o SOURCE}
    /\ t.layers = SelectSeq(s.layers, LAMBDA l : l.id \notin {id, id \o OUTLINE})
    /\ [t EXCEPT !.sources = s.sources, !.layers = s.layers] = s

C9_RemoveLayerExact ==
    \A p \in CallPairs :
        RemovedExactly(Cur, removeLayer(Cur, p[1], p[2]), p[1] \o DASH \o p[2])

\* the source, the fill and the outline of a pair are on the map next to the
\* charger layer and to the line layer of the same region
C9_Witness ==
    \E p \in CallPairs :
        /\ p[2] = POLYGON_STAGE
        /\ {(p[1] \o DASH \o p[2]) \o SOURCE, CHARGERS_SOURCE} \subseteq SourceIds
        /\ {p[1] \o DASH \o p[2], (p[1] \o DASH \o p[2]) \o OUTLINE,
            p[1] \o DASH \o LINE_STAGE, CHARGERS_LAYER} \subseteq LayerIds
        /\ removeLayer(Cur, p[1], p[2]).layers # layers

(***************************************************************************)
(* C10: LAYERS.removeLayer for a pair that is not on the map, and          *)
(* LAYERS.addLayer for a pair whose source and layers are on the map       *)
(* already, change nothing on the map and raise no error; after any        *)
(* sequence of add and remove calls no source id and no layer id is on the *)
(* map twice.                                                              *)
(***************************************************************************)
PartlyOnMap(s, id) ==
    MapGetSource(s, id \o SOURCE) \/ MapGetLayer(s, id)
        \/ MapGetLayer(s, id \o OUTLINE)

FullyOnMap(s, id, stage) ==
    /\ MapGetSource(s, id \o SOURCE)
    /\ MapGetLayer(s, id)
    /\ IsPolygonStage(stage) => MapGetLayer(s, id \o OUTLINE)

NoOp(s, t) ==
    EndsWithoutError(t) /\ t.sources = s.sources /\ t.layers = s.layers

C10_AddRemoveIdempotent ==
    /\ \A p \in CallPairs :
          ~PartlyOnMap(Cur, p[1] \o DASH \o p[2])
              => NoOp(Cur, removeLayer(Cur, p[1], p[2]))
    /\ \A p \in CallPairs :
          FullyOnMap(Cur, p[1] \o DASH \o p[2], p[2])
              => NoOp(Cur, addLayer(Cur, p[1], p[2]))
    /\ \A i, j \in DOMAIN layers : layers[i].id = layers[j].id => i = j
    /\ \A a, b \in sources : a.id = b.id => a = b

\* one pair is on the map in full and another is not on it at all
C10_Witness ==
    \E p, q \in CallPairs :
        /\ FullyOnMap(Cur, p[1] \o DASH \o p[2], p[2])
        /\ p[2] = POLYGON_STAGE
        /\ ~PartlyOnMap(Cur, q[1] \o DASH \o q[2])
        /\ Len(layers) >= 2

(***************************************************************************)
(* C11: after a region change handler completes with the analysis layer    *)
(* enabled, activeLayers is exactly the list of <r>-<currentStage> for the *)
(* regions r of the selection (every configured region in order for 'all', *)
(* else the chosen one) whose key <r>_<currentStage> is listed in          *)
(* CONFIG.availableFiles, each once, and no error is thrown.               *)
(***************************************************************************)
ListedRegions(region, stage) ==
    SelectSeq(IF region = ALL THEN RegionIds ELSE <<region>>,
              LAMBDA r : r \o US \o stage \in AvailableFiles)

ExpectedActiveLayers(region, stage) ==
    [i \in DOMAIN ListedRegions(region, stage) |->
        ListedRegions(region, stage)[i] \o DASH \o stage]

RegionChangeDone(t, value) ==
    /\ EndsWithoutError(t)
    /\ t.currentRegion = value
    /\ t.activeLayers = ExpectedActiveLayers(value, t.currentStage)

C11_RegionChangeActiveLayers ==
    showAnalysisLayer =>
        \A value \in RegionChoices :
            RegionChangeDone(RegionSelectChange(Cur, value), value)

(***************************************************************************)
(* C12: after a stage change handler completes with the analysis layer     *)
(* enabled, no source or layer of the previously selected stage is on the  *)
(* map, activeLayers holds only ids of the new stage for the current       *)
(* region selection, and the legend shown starts with the legend of the    *)
(* new stage.                                                              *)
(***************************************************************************)
IdsOfStage(stage) ==
    UNION {{RegionIds[i] \o DASH \o stage,
            (RegionIds[i] \o DASH \o stage) \o OUTLINE,
            (RegionIds[i] \o DASH \o stage) \o SOURCE} : i \in DOMAIN RegionIds}

StartsWith(seq, prefix) ==
    Len(seq) >= Len(prefix) /\ SubSeq(seq, 1, Len(prefix)) = prefix

StageChangeDone(t, old, new) ==
    /\ t.currentStage = new
    /\ \A src \in t.sources : src.id \notin IdsOfStage(old)
    /\ \A i \in DOMAIN t.layers : t.layers[i].id \notin IdsOfStage(old)
    /\ \A i \in DOMAIN t.activeLayers :
          \E j \in DOMAIN ExpectedActiveLayers(t.currentRegion, new) :
              t.activeLayers[i] = ExpectedActiveLayers(t.currentRegion, new)[j]
    /\ StartsWith(t.legend, generateLegend(new))

C12_StageChangeReplacesStage ==
    showAnalysisLayer =>
        \A value \in StageChoices \ {currentStage} :
            StageChangeDone(StageRadioChange(Cur, value), currentStage, value)

\* a stage change away from the initial polygon stage has put the line
\* layers of the new stage on the loaded map and the new legend on display
C12_Witness ==
    /\ styleLoaded /\ showAnalysisLayer
    /\ currentStage = LINE_STAGE
    /\ activeLayers = ExpectedActiveLayers(currentRegion, LINE_STAGE)
    /\ ActiveIds \subseteq LayerIds
    /\ StartsWith(legend, generateLegend(LINE_STAGE))

(***************************************************************************)
(* C13: on a map click, if no feature of a layer in activeLayers lies at   *)
(* the click point the info panel becomes hidden; otherwise it becomes     *)
(* visible and shows the first such feature: the key attributes of the     *)
(* current stage that the feature has, in their configured order, then     *)
(* every other attribute except 'geometry', each attribute once.           *)
(***************************************************************************)
ActiveHits(s, hits) == SelectSeq(hits, LAMBDA f : InSeq(f.layer, s.activeLayers))

Labels(content) == [i \in DOMAIN content |-> content[i].label]

PresentKeyLabels(keyProps, properties) ==
    [i \in DOMAIN SelectSeq(keyProps, LAMBDA k : HasProperty(properties, k)) |->
        formatPropertyLabel(
            SelectSeq(keyProps, LAMBDA k : HasProperty(properties, k))[i])]

ShowsAttributes(labels, keyProps, properties) ==
    /\ \A i, j \in DOMAIN labels : labels[i] = labels[j] => i = j
    /\ {labels[i] : i \in DOMAIN labels}
         = {formatPropertyLabel(properties[i][1]) :
              i \in {j \in DOMAIN properties : properties[j][1] # GEOMETRY}}
    /\ StartsWith(labels, PresentKeyLabels(keyProps, properties))

ClickShown(t, active) ==
    IF active = <<>> THEN t.infoPanel.hidden
    ELSE /\ ~t.infoPanel.hidden
         /\ ShowsAttributes(Labels(t.infoPanel.content),
                            getKeyProperties(t.currentStage),
                            active[1].properties)

\* the claim as it stands, for every click
C13_ClickShowsActiveFeature ==
    \A hits \in ClickHits(Cur) :
        ClickShown(MapClickEvent(Cur, hits), ActiveHits(Cur, hits))

ChargerHit(s, hits) ==
    \E i \in DOMAIN hits :
        hits[i].layer = CHARGERS_LAYER /\ MapGetLayer(s, CHARGERS_LAYER)

\* the claim for the clicks with no feature of the charger layer under them
C13_ClickOffChargersShowsActiveFeature ==
    \A hits \in {h \in ClickHits(Cur) : ~ChargerHit(Cur, h)} :
        ClickShown(MapClickEvent(Cur, hits), ActiveHits(Cur, hits))

\* the panel shows a clicked feature of the first stage: its two key
\* attributes first, then its one other attribute
C13_Witness ==
    /\ ~infoPanel.hidden
    /\ currentStage = POLYGON_STAGE /\ activeLayers # <<>>
    /\ Labels(infoPanel.content)
         = << formatPropertyLabel(GEO_CODE),
              formatPropertyLabel(<<"adoption", "_", "propensity", "_", "score">>),
              formatPropertyLabel(<<"number", "_", "of", "_", "points">>) >>

(***************************************************************************)
(* C14: for every configured stage and overlay the generated legend has    *)
(* exactly three labelled stops when the colour scale is continuous, and   *)
(* exactly one swatch row per declared category, with no fallback row,     *)
(* when it is categorical.  The stage radios reach every configured stage. *)
(***************************************************************************)
RowsOfKind(html, kind) == {i \in DOMAIN html : html[i][1] = kind}

LegendShape(html, scale) ==
    IF scale.array
    THEN /\ Cardinality(RowsOfKind(html, "labels")) = 1
         /\ \A i \in RowsOfKind(html, "labels") : Len(html[i]) = 1 + 3
         /\ RowsOfKind(html, "item") = {}
    ELSE /\ RowsOfKind(html, "labels") = {}
         /\ Cardinality(RowsOfKind(html, "item")) = Len(scale.entries)
         /\ \A e \in DOMAIN scale.entries :
               Cardinality({i \in RowsOfKind(html, "item") :
                              html[i][4] = scale.entries[e][1]}) = 1

C14_LegendShape ==
    /\ LegendShape(generateLegend(currentStage),
                   ColorScales[StageConfig(currentStage).colorScale])
    /\ \A i \in DOMAIN OverlayLayers :
          LegendShape(generateOverlayLegend(OverlayLayers[i].id),
                      ColorScales[OverlayLayers[i].colorScale])

\* the legend on display is the categorical legend of the trip purpose stage
\* followed by the continuous legend of an overlay
C14_Witness ==
    /\ currentStage = LINE_STAGE /\ showAnalysisLayer /\ showEvDistribution
    /\ ~showCarAvailability
    /\ legend = generateLegend(LINE_STAGE) \o HR
                  \o generateOverlayLegend(EV_DISTRIBUTION)
    /\ Cardinality(RowsOfKind(legend, "item")) = 12
    /\ Cardinality(RowsOfKind(legend, "labels")) = 1

(***************************************************************************)
(* The conversion scripts: column selection, sampling, batch drivers.      *)
(***************************************************************************)
\* the job has gone through a column selection
ColumnsSelected ==
    \/ job.pc = "selected"
    \/ job.pc \in {"loop", "summary"} /\ job.cols # <<>>

\* C15: for every configured column range [s, e] and every column count
\* n >= 1 the columns selected are exactly min(s, n)..min(e, n), each of
\* them within 1..n; with range [418, 438] and n = 450 they are 418..438
C15_ColumnsClippedToCount ==
    ColumnsSelected =>
        LET s == job.col_range[1]
            e == job.col_range[2]
            n == job.n_cols
            lo == IF s < n THEN s ELSE n
            hi == IF e < n THEN e ELSE n
        IN  /\ job.cols = [k \in 1..(hi - lo + 1) |-> lo + k - 1]
            /\ \A k \in DOMAIN job.cols : job.cols[k] \in 1..n
            /\ job.col_range = <<418, 438>> /\ n = 450
                  => job.cols = [k \in 1..21 |-> 417 + k]

\* a container with fewer columns than the end of the range: 418..438 of 430
C15_Witness ==
    /\ job.pc = "selected"
    /\ job.col_range = <<418, 438>>
    /\ job.n_cols = 430
    /\ job.cols = [k \in 1..13 |-> 417 + k]

\* the job has gone through the sampling of routine r
Sampled(r) ==
    /\ job.routine = r
    /\ \/ job.pc = "sampled"
       \/ job.pc \in {"loop", "summary"} /\ job.rows # {}

\* n is the least integer that is at least n_original * rate / 100
IsCeiling(n, n_original, rate) ==
    /\ 100 * n >= n_original * rate
    /\ 100 * (n - 1) < n_original * rate

\* C16: in the current convert_line_layer the sample count is
\* ceiling(N * rate), the rate being that of the largest threshold the file
\* size strictly exceeds (> 10 GB: 1%, > 3 GB: 3%, > 1 GB: 5%, > 0.5 GB: 10%,
\* > 0.1 GB: 15%); a size equal to a threshold takes the next lower branch,
\* a size of at most 0.1 GB keeps all N rows, and 12 GB yields
\* ceiling(N * 0.01) rows
C16_SampleCountByThreshold ==
    Sampled("convert_line_layer") =>
        LET size == job.file_size
            N == job.n_original
            rate == IF size > 100 THEN 1
                    ELSE IF size > 30 THEN 3
                    ELSE IF size > 10 THEN 5
                    ELSE IF size > 5 THEN 10
                    ELSE 15
        IN  /\ size > 1 => /\ job.sample_rate = rate
                           /\ IsCeiling(job.n_sample, N, rate)
                           /\ Cardinality(job.rows) = job.n_sample
            /\ size <= 1 => job.rows = 1..N
            /\ size = 100 => job.sample_rate = 3
            /\ size = 30 => job.sample_rate = 5
            /\ size = 10 => job.sample_rate = 10
            /\ size = 5 => job.sample_rate = 15
            /\ size = 120 => IsCeiling(Cardinality(job.rows), N, 1)

\* a container of exactly 10 GB with 24 rows: sampled at 3%, one row
C16_Witness ==
    /\ job.pc = "sampled"
    /\ job.routine = "convert_line_layer"
    /\ job.file_size = 100
    /\ job.n_original = 24
    /\ job.sample_rate = 3
    /\ Cardinality(job.rows) = 1

\* the job has gone through the sampling block of a line routine
SamplingBlockRan ==
    /\ \/ job.pc = "sampled"
       \/ job.pc \in {"loop", "summary"} /\ job.rows # {}
    /\ \/ job.routine \in {"convert_line", "convert_large_line_layer"}
       \/ /\ job.routine \in {"convert_line_layer_first", "convert_line_layer"}
          /\ job.sample_rate < 100

\* C17: in every line routine, for N >= 1 rows and every rate in (0, 1] the
\* routine can use, the sample count n satisfies 1 <= n <= N: the draw is
\* never of zero rows and never of more rows than there are
C17_SampleCountWithinRows ==
    SamplingBlockRan /\ job.n_original >= 1
      /\ job.sample_rate > 0 /\ job.sample_rate <= 100
      => /\ 1 <= job.n_sample
         /\ job.n_sample <= job.n_original
         /\ Cardinality(job.rows) = job.n_sample
         /\ job.rows \subseteq 1..job.n_original

\* convert_large_line_layer on a container of one row at 5%: one row drawn
C17_Witness ==
    /\ job.pc = "sampled"
    /\ job.routine = "convert_large_line_layer"
    /\ job.n_original = 1
    /\ job.sample_rate = 5
    /\ job.n_sample = 1
    /\ job.rows = {1}

\* the rate a revision of convert_line_layer chooses for a file size
RateOf(routine, file_size) ==
    IF routine = "convert_line_layer_first" THEN sample_rate_first(file_size)
    ELSE sample_rate(file_size)

\* C18: in both revisions of convert_line_layer the sampling fraction is a
\* non-increasing step function of the file size (a <= b implies
\* rate(b) <= rate(a)) and always in (0, 1]
C18_RateNonIncreasing ==
    /\ job.pc = "sampled"
    /\ job.routine \in {"convert_line_layer_first", "convert_line_layer"}
    => /\ job.sample_rate > 0
       /\ job.sample_rate <= 100
       /\ \A a \in 0..job.file_size :
              /\ job.sample_rate <= RateOf(job.routine, a)
              /\ RateOf(job.routine, a) <= 100
       /\ \A b \in job.file_size..MaxFileSize :
              /\ RateOf(job.routine, b) <= job.sample_rate
              /\ RateOf(job.routine, b) > 0

\* the first revision on a container just above 5 GB: 10%
C18_Witness ==
    /\ job.pc = "sampled"
    /\ job.routine = "convert_line_layer_first"
    /\ job.file_size = 51
    /\ job.sample_rate = 10
    /\ RateOf(job.routine, 50) = 30

\* the rows a run of the job's routine selects over the same input (same
\* rows, same file size, same rate) when it is the first thing a fresh R
\* session does
RowsOfFreshRun ==
    sample_rows([NoJob EXCEPT !.routine = job.routine,
                                !.file_size = job.file_size,
                                !.n_original = job.n_original,
                                !.sample_rate = job.sample_rate]).rows

\* C19: two runs of a line conversion over the same input select the same
\* set of row indices: the seed is reset to the same value right before
\* every draw, so the sample of an item depends neither on the items
\* converted before it in the batch nor on whether earlier items failed
C19_SampleRepeatable ==
    SamplingBlockRan => job.rows = RowsOfFreshRun

\* the second line item of the missing-files script, sampled after the
\* first line item has failed
C19_Witness ==
    /\ job.pc = "loop"
    /\ job.driver = "missing"
    /\ job.i = 13
    /\ Len(job.log) = 12
    /\ job.log[11].outcome = "error"
    /\ job.log[12].outcome = "created"
    /\ job.n_original = 8
    /\ Cardinality(job.rows) = 1

\* the log has one entry for each item the loop has gone through, in list
\* order
LogInOrder ==
    /\ \A k \in DOMAIN job.log : job.log[k].item = k
    /\ job.pc = "loop" => Len(job.log) = job.i - 1
    /\ job.pc = "summary" => Len(job.log) = Len(batch_items(job.driver))

\* C20: in each batch driver an error raised while converting an item is
\* caught at that item and logged, every later item of the list is still
\* gone through exactly once in list order, and the batch always reaches
\* its summary step (every subprocess call returning): the script is never
\* ended by an error, the loop stands at an item of the list or right
\* behind the last one, and every step moves on in the list or from behind
\* the last item to the summary
C20_BatchIsolatesErrors ==
    /\ [](job.driver \in {"convert_all", "missing", "LARGE_FILES"} =>
             /\ job.pc \in {"loop", "summary"}
             /\ ~job.thrown
             /\ LogInOrder
             /\ job.pc = "loop" =>
                   job.i \in 1..(Len(batch_items(job.driver)) + 1))
    /\ [][job.driver \in {"convert_all", "missing", "LARGE_FILES"} /\ job.pc = "loop" =>
             \/ /\ job'.pc = "summary"
                /\ job.i = Len(batch_items(job.driver)) + 1
             \/ /\ job'.pc = "loop"
                /\ job'.i > job.i
                /\ Len(job'.log) > Len(job.log)]_vars

\* the LARGE_FILES loop at its summary, the second item having raised an
\* error and the four items behind it converted
C20_Witness ==
    /\ job.driver = "LARGE_FILES"
    /\ job.pc = "summary"
    /\ Len(job.log) = 6
    /\ job.log[2] = [item |-> 2, outcome |-> "error"]
    /\ \A k \in 3..6 : job.log[k] = [item |-> k, outcome |-> "created"]

(***************************************************************************)
(* The viewer: analysis toggle, layer ids, names, handlers, camera.        *)
(***************************************************************************)
\* in state t exactly the analysis layers of t's region and stage are on the
\* map and in activeLayers
AnalysisRestored(t) ==
    LET ids == ExpectedActiveLayers(t.currentRegion, t.currentStage)
        idSet == {ids[i] : i \in DOMAIN ids}
        polygon == StageConfig(t.currentStage).type = "polygon"
        analysisLayerIds ==
            {t.layers[i].id : i \in DOMAIN t.layers} \ OverlayLayerIds
    IN  /\ EndsWithoutError(t)
        /\ t.activeLayers = ids
        /\ {src.id : src \in t.sources} \ OverlaySourceIds
              = {id \o SOURCE : id \in idSet}
        /\ analysisLayerIds
              = idSet \cup (IF polygon THEN {id \o OUTLINE : id \in idSet}
                            ELSE {})

\* C28: whenever the analysis-layer toggle is off (no handler running),
\* activeLayers is empty and no analysis source or layer is on the map, also
\* after stage changes, region changes and basemap reloads made while it is
\* off; turning the toggle back on restores exactly the layers of the
\* then-current region and stage
C28_AnalysisOffMeansNoAnalysisLayers ==
    ~showAnalysisLayer =>
        /\ activeLayers = <<>>
        /\ AnalysisSources = {}
        /\ AnalysisLayers = {}
        /\ AnalysisRestored(AnalysisLayerToggleChange(Cur, TRUE))

\* the polygon fill layers the viewer can create: one per region and polygon
\* stage of CONFIG, and the two polygon overlays
PolygonFillIds ==
    {RegionIds[r] \o DASH \o Stages[i].id :
        r \in DOMAIN RegionIds, i \in {k \in DOMAIN Stages : Stages[k].type = "polygon"}}
    \cup {CAR_AVAILABILITY, EV_DISTRIBUTION}

\* C29: in every reachable state, for every polygon stage and every polygon
\* overlay the fill layer <id> is on the map if and only if its outline layer
\* <id>-outline is on the map, and a layer is on the map only if the source
\* it refers to is on the map.
C29_FillWithOutlineAndSource ==
    /\ \A id \in PolygonFillIds : id \in LayerIds <=> (id \o OUTLINE) \in LayerIds
    /\ \A i \in DOMAIN layers : layers[i].source \in SourceIds

\* a polygon stage and a polygon overlay are shown, each with its outline
C29_Witness ==
    /\ \E id \in PolygonFillIds \ {CAR_AVAILABILITY, EV_DISTRIBUTION} :
          id \in LayerIds /\ (id \o OUTLINE) \in LayerIds
    /\ CAR_AVAILABILITY \in LayerIds
    /\ (CAR_AVAILABILITY \o OUTLINE) \in LayerIds
    /\ \E id \in PolygonFillIds : id \notin LayerIds /\ (id \o OUTLINE) \notin LayerIds

\* the camera is at the configured center and zoom of region value
\* (the map's default for 'all')
CameraAtRegion(t, value) ==
    t.camera = IF value = ALL
               THEN [center |-> MapConfig.center, zoom |-> MapConfig.zoom]
               ELSE [center |-> RegionConfig(value).center,
                     zoom |-> RegionConfig(value).zoom]

\* C30: when a region change is processed between a basemap change and the
\* delivery of that basemap change's style-load notification, then once all
\* events have been processed the camera target is the newly selected
\* region's configured center and zoom, not the one captured at the basemap
\* change.
C30_RegionChangeWinsOverCapturedCamera ==
    (~styleLoaded /\ styleLoadListeners # <<>>) =>
        \A value \in RegionChoices :
            CameraAtRegion(StyleLoadEvent(Ended(RegionSelectChange(Cur, value))), value)

\* every (region id, stage id) pair of CONFIG
ConfigPairs ==
    {<<RegionIds[r], StageIds[i]>> : r \in DOMAIN RegionIds, i \in DOMAIN StageIds}

\* the removal pass of updateLayers took away the sources and layers of ids,
\* and nothing else
RemovalTargets(t, ids) ==
    /\ {src.id : src \in t.sources} = SourceIds \ {id \o SOURCE : id \in ids}
    /\ {t.layers[i].id : i \in DOMAIN t.layers}
         = LayerIds \ (ids \cup {id \o OUTLINE : id \in ids})

\* every layer id parses back to its pair, and no two pairs share a layer id
\* or an archive key
RoundTrip ==
    /\ \A p \in ConfigPairs :
          /\ ParsedRegion(p[1] \o DASH \o p[2]) = p[1]
          /\ ParsedStage(p[1] \o DASH \o p[2]) = p[2]
    /\ \A p, q \in ConfigPairs :
          p # q => /\ p[1] \o DASH \o p[2] # q[1] \o DASH \o q[2]
                   /\ p[1] \o US \o p[2] # q[1] \o US \o q[2]

\* C26: for every region id and stage id of CONFIG, parsing the layer id
\* <region>-<stage> the way updateLayers does yields the original (region,
\* stage), so the removal pass targets exactly the source and layer ids that
\* addLayer created, and distinct pairs never share a layer id or an archive
\* key.
C26_LayerIdRoundTrip ==
    /\ RoundTrip
    /\ \A i \in DOMAIN activeLayers :
          /\ <<ParsedRegion(activeLayers[i]), ParsedStage(activeLayers[i])>> \in ConfigPairs
          /\ ParsedRegion(activeLayers[i]) \o DASH \o ParsedStage(activeLayers[i])
               = activeLayers[i]
    /\ RemovalTargets(RemoveActive(Cur, activeLayers), ActiveIds)

\* layers of a stage whose id has an underscore are shown, for several regions
C26_Witness ==
    /\ Cardinality(ActiveIds) > 1
    /\ \A id \in ActiveIds : id \in LayerIds /\ (id \o SOURCE) \in SourceIds
    /\ Len(currentStage) > 1

(***************************************************************************)
(* The conversion scripts: skipped items, outcomes, transient files,       *)
(* coordinate systems, names.                                              *)
(***************************************************************************)
\* what a pass of a loop can meet at an item whose region directory is there
Containers ==
    [dir : {TRUE}, exists : BOOLEAN, made : BOOLEAN,
     fails : {"none", "read", "write"}, n_cols : {20}, file_size : {3, 120},
     n_original : {3, 8},
     crs : {"none", "4326", "epsg_other", "no_epsg_na", "no_epsg_null"}]

\* those of them that are not there, whatever else the pass would have met
\* (one size and one number of rows are enough here)
MissingContainers ==
    {c \in Containers : ~c.exists /\ c.file_size = 120 /\ c.n_original = 8}

\* the loop stands at an item of its list
AtItem == job.pc = "loop" /\ job.i \in DOMAIN batch_items(job.driver)

\* the pass that led from the current state to t has only entered the item as
\* skipped and moved on to the next
SkippedOnly(t) ==
    /\ t.log = Append(job.log, [item |-> job.i, outcome |-> "skipped"])
    /\ t.events = <<>>
    /\ t.temp = "none"
    /\ t.archives = job.archives
    /\ t.rng = job.rng
    /\ ~t.thrown
    /\ t.pc = "loop"
    /\ t.i = job.i + 1

\* C21: when an item's input file does not exist, the item is skipped with a
\* log line: no layer is read, no transient file is written, no subprocess
\* is invoked, no output archive is created or modified, no error is raised,
\* and the batch continues with the next item.
C21_MissingFileSkipped ==
    AtItem =>
        \A in \in MissingContainers : SkippedOnly(loop_body(job, in))

\* an item has been skipped behind one whose archive was made, and the loop
\* stands at the item behind it
C21_Witness ==
    /\ AtItem
    /\ Len(job.log) > 1
    /\ job.log[Len(job.log)].outcome = "skipped"
    /\ job.log[Len(job.log) - 1].outcome = "created"
    /\ job.archives # {}
    /\ job.events = <<>>

\* the subprocess of the pass that led to t has returned
SubprocessReturned(t) == \E k \in DOMAIN t.events : t.events[k] = "system"

\* C22: in every conversion routine, after the subprocess returns exactly
\* one outcome is logged: a 'Created' success message if the output file
\* exists, and an explicit failure message if it does not.
C22_OneOutcomeLogged ==
    AtItem =>
        \A in \in Containers :
            SubprocessReturned(loop_body(job, in)) =>
                loop_body(job, in).log
                  = Append(job.log,
                           [item |-> job.i,
                            outcome |-> IF in.made THEN "created" ELSE "failed"])

\* the place of event e in the pass that led to t (0: it did not happen)
EventAt(t, e) ==
    IF \E k \in DOMAIN t.events : t.events[k] = e
    THEN CHOOSE k \in DOMAIN t.events : t.events[k] = e
    ELSE 0

\* C23: each time a conversion routine writes its transient interchange
\* file, that file no longer exists when processing of the item ends,
\* whether the subprocess succeeded, the subprocess failed, or an error was
\* raised during the write; the deletion always happens after the subprocess
\* has returned and before the output-existence check.
C23_TransientFileDeleted ==
    AtItem =>
        \A in \in Containers :
            EventAt(loop_body(job, in), "st_write") > 0 =>
                /\ loop_body(job, in).temp = "deleted"
                /\ EventAt(loop_body(job, in), "system")
                     < EventAt(loop_body(job, in), "unlink")
                /\ EventAt(loop_body(job, in), "unlink")
                     < EventAt(loop_body(job, in), "file.exists")

\* C24: in every conversion routine and for every input coordinate-system
\* condition (no CRS, already EPSG:4326, another CRS with an EPSG code,
\* another CRS without an EPSG code), a missing CRS is assumed to be
\* EPSG:27700 and the data handed to geometry repair is in EPSG:4326.
C24_RepairGetsEpsg4326 ==
    AtItem =>
        \A in \in Containers :
            EventAt(loop_body(job, in), "st_make_valid") > 0 =>
                /\ loop_body(job, in).crs = "4326"
                /\ in.crs = "none" => loop_body(job, in).assumed = "27700"

\* the stages of the pipeline
PipelineStages ==
    {POLYGON_STAGES[s] : s \in DOMAIN POLYGON_STAGES}
    \cup {LINE_STAGES[s] : s \in DOMAIN LINE_STAGES}

\* the names convert_all can give an archive and its tile layer
PipelineNames ==
    {output_name("convert_all", [region |-> REGIONS[r], stage |-> stage]) :
        r \in DOMAIN REGIONS, stage \in PipelineStages}

\* the names of the pipeline and of the viewer, compared list by list
NamesAgree ==
    /\ DOMAIN REGIONS = DOMAIN RegionIds
    /\ PipelineStages = {StageIds[i] : i \in DOMAIN StageIds}
    /\ \A r \in DOMAIN REGIONS, stage \in PipelineStages :
          LET name == output_name("convert_all",
                                  [region |-> REGIONS[r], stage |-> stage])
          IN  /\ name = getSourceUrl(RegionIds[r], stage)
              /\ name = getSourceLayer(RegionIds[r], stage)
    /\ AvailableFiles \ {W("chargers"), CAR_AVAILABILITY, EV_DISTRIBUTION}
         \subseteq PipelineNames
    /\ \A o \in DOMAIN convert_overlays :
          /\ HasOverlay(convert_overlays[o].stage)
          /\ output_name("convert_overlays", convert_overlays[o])
               = OverlayConfig(convert_overlays[o].stage).sourceLayer
          /\ output_name("convert_overlays", convert_overlays[o])
               = getOverlaySourceUrl(convert_overlays[o].stage)

\* C25: for every region in the pipeline's REGIONS list and every stage, the
\* archive file stem and the tile layer name the pipeline produces
\* (lower-cased region, underscore, stage) are equal to each other and equal
\* to both the URL file stem and the source-layer name the viewer derives for
\* the matching CONFIG.regions id and stage id; every region/stage key in
\* CONFIG.availableFiles is a name the pipeline can produce, and each overlay
\* archive's layer name equals that overlay's configured sourceLayer.  The
\* entries of REGIONS and of CONFIG.regions match by position.  Every archive
\* a batch run has written is one the viewer lists.
C25_PipelineAndViewerNamesAgree ==
    /\ NamesAgree
    /\ job.archives \subseteq AvailableFiles
    /\ job.driver = "convert_all" => job.archives \subseteq PipelineNames

\* convert_all has made the archive the viewer asks for when the second
\* region and the first stage of CONFIG are selected
C25_Witness ==
    /\ job.driver = "convert_all"
    /\ getSourceUrl(RegionIds[2], StageIds[1]) \in job.archives

\* the listeners of a type registered for a layer id
Listeners(type, layerId) ==
    IF [type |-> type, layer |-> layerId] \in DOMAIN handlers.count
    THEN handlers.count[[type |-> type, layer |-> layerId]]
    ELSE 0

\* C27: updateClickHandlers removes old hover handlers and adds new ones:
\* after any sequence of region, stage, analysis-toggle and basemap events,
\* each id in activeLayers has exactly one mouseenter and one mouseleave
\* handler registered, ids not in activeLayers have none, and likewise the
\* charger layer has at most one click handler however often chargers are
\* toggled or the basemap is changed.
C27_OneHoverHandlerPerActiveLayer ==
    /\ \A id \in ActiveIds :
          Listeners("mouseenter", id) = 1 /\ Listeners("mouseleave", id) = 1
    /\ \A k \in DOMAIN handlers.count :
          k.layer \notin ActiveIds \cup {CHARGERS_LAYER} => handlers.count[k] = 0
    /\ Listeners("click", CHARGERS_LAYER) <= 1

====
